---- MODULE Spec2Model ----
(***************************************************************************)
(* DailyWhy: the heuristic decision-scoring engine (lib/ai/supabase-ai,    *)
(* local analysis), the metrics and insights of lib/ai/insights-engine,    *)
(* the callers of the analysis, the streaks and outcomes routes and the    *)
(* weekly insights run.                                                    *)
(*                                                                         *)
(* Strings are TLA+ strings; substring search, lower-casing, trimming and  *)
(* whitespace splitting are computed character by character as the         *)
(* JavaScript string methods compute them.  Fractions are kept exact as    *)
(* records [num, den]; den = 0 stands for the NaN of a 0/0 division.       *)
(***************************************************************************)
EXTENDS Integers, Sequences, FiniteSets, TLC

VARIABLES context, result, decisions, outcomes, metrics, page, response, insights, streak, clock, requests, run

vars == <<context, result, decisions, outcomes, metrics, page, response, insights, streak, clock, requests, run>>

(***************************************************************************)
(* Bounds of the explored inputs.                                          *)
(***************************************************************************)
\* options of a context whose options may all carry pros and cons
MaxOptions == 3
\* options of a context in which only the first option carries pros
MaxPlainOptions == 6
\* pros + cons of one decision context
MaxDetails == 3
\* decisions in one history handed to analyzeBiases
MaxDecisions == 10
\* decisions / outcomes in one history handed to the rate functions
MaxHistory == 3
\* stored decisions of one user in the fatigue runs
MaxDayDecisions == 13
\* options of a context drawn from all texts
MaxRiskOptions == 4
\* option fields of the create-decision page
MaxFields == 3
\* decisions of the week of one user
MaxWeekDecisions == 4
\* days the clock runs through
MaxDay == 4
\* requests to POST /api/outcomes
MaxRequests == 3
\* decision rows of the week that the active-users select returns
MaxActiveRows == 3
\* rows of the decisions table
MaxStored == 1

(***************************************************************************)
(* String primitives.                                                      *)
(***************************************************************************)
UpperCase == "ABCDEFGHIJKLMNOPQRSTUVWXYZ"
LowerCase == "abcdefghijklmnopqrstuvwxyz"

CharAt(s, i) == SubSeq(s, i, i)

\* String.prototype.toLowerCase, one character
LowerChar(c) ==
    IF \E i \in 1..Len(UpperCase) : CharAt(UpperCase, i) = c
    THEN CharAt(LowerCase, CHOOSE i \in 1..Len(UpperCase) : CharAt(UpperCase, i) = c)
    ELSE c

RECURSIVE toLowerCase(_)
toLowerCase(s) ==
    IF Len(s) = 0 THEN ""
    ELSE LowerChar(CharAt(s, 1)) \o toLowerCase(SubSeq(s, 2, Len(s)))

\* the \s class, restricted to the whitespace of the modelled alphabet
IsSpace(c) == c \in {" ", "\t"}

\* String.prototype.trim
RECURSIVE trim(_)
trim(s) ==
    IF Len(s) = 0 THEN ""
    ELSE IF IsSpace(CharAt(s, 1)) THEN trim(SubSeq(s, 2, Len(s)))
    ELSE IF IsSpace(CharAt(s, Len(s))) THEN trim(SubSeq(s, 1, Len(s) - 1))
    ELSE s

\* String.prototype.includes
includes(s, word) ==
    \E i \in 0..(Len(s) - Len(word)) : SubSeq(s, i + 1, i + Len(word)) = word

RECURSIVE SkipSpaces(_, _)
SkipSpaces(s, i) ==
    IF i <= Len(s) /\ IsSpace(CharAt(s, i)) THEN SkipSpaces(s, i + 1) ELSE i

\* String.prototype.split(/\s+/): "" yields <<"">>, leading or trailing
\* whitespace yields an empty first or last piece
RECURSIVE SplitFrom(_, _, _)
SplitFrom(s, i, cur) ==
    IF i > Len(s) THEN <<cur>>
    ELSE IF IsSpace(CharAt(s, i))
         THEN <<cur>> \o SplitFrom(s, SkipSpaces(s, i), "")
         ELSE SplitFrom(s, i + 1, cur \o CharAt(s, i))

split(s) == SplitFrom(s, 1, "")

\* Array.prototype.filter(w => w.length > 3)
RECURSIVE LongerThan3(_)
LongerThan3(words) ==
    IF words = <<>> THEN <<>>
    ELSE (IF Len(Head(words)) > 3 THEN <<Head(words)>> ELSE <<>>)
         \o LongerThan3(Tail(words))

\* number of entries of a list of words that occur in a text
RECURSIVE CountIncluded(_, _)
CountIncluded(words, text) ==
    IF words = <<>> THEN 0
    ELSE (IF includes(text, Head(words)) THEN 1 ELSE 0) + CountIncluded(Tail(words), text)

\* Array.prototype.some(word => text.includes(word))
SomeIncluded(words, text) == \E i \in 1..Len(words) : includes(text, words[i])

Max(a, b) == IF a >= b THEN a ELSE b
Min(a, b) == IF a <= b THEN a ELSE b

RECURSIVE SeqMax(_)
SeqMax(s) == IF Len(s) = 1 THEN s[1] ELSE Max(s[1], SeqMax(Tail(s)))

RECURSIVE SeqMin(_)
SeqMin(s) == IF Len(s) = 1 THEN s[1] ELSE Min(s[1], SeqMin(Tail(s)))

RECURSIVE SeqSum(_)
SeqSum(s) == IF s = <<>> THEN 0 ELSE Head(s) + SeqSum(Tail(s))

(***************************************************************************)
(* Vocabularies of localAnalyzeDecision.                                   *)
(***************************************************************************)
workWords ==
    <<"work", "project", "job", "task", "assignment", "study", "homework",
      "deadline", "school", "college", "office">>

avoidanceWords ==
    <<"sleep", "rest", "relax", "nothing", "later", "tomorrow", "skip",
      "ignore", "avoid", "procrastinate", "delay", "netflix", "game", "play",
      "chill">>

productiveWords ==
    <<"work", "project", "study", "complete", "finish", "start", "begin",
      "do", "create", "build", "learn", "practice", "maths", "math",
      "graphics", "code", "write", "research", "prepare">>

positiveWords ==
    <<"best", "better", "good", "great", "important", "priority", "urgent",
      "deadline", "required", "necessary">>

negativeWords ==
    <<"risk", "bad", "problem", "difficult", "hard", "boring", "tedious">>

\* option.pros?.length || 0
prosCount(option) == IF "pros" \in DOMAIN option THEN Len(option.pros) ELSE 0
\* option.cons?.length || 0
consCount(option) == IF "cons" \in DOMAIN option THEN Len(option.cons) ELSE 0

\* (description || '')
descriptionOf(ctx) == IF "description" \in DOMAIN ctx THEN ctx.description ELSE ""

(***************************************************************************)
(* Inputs of the analysis: the title, description, category, urgency and   *)
(* history of a request, and the texts a caller may give an option.        *)
(***************************************************************************)
Headers ==
    { [title |-> "Finish project or sleep", category |-> "work",
       urgency |-> "high", options |-> <<>>],
      [title |-> "Tea or Nap", category |-> "lifestyle",
       urgency |-> "critical", options |-> <<>>],
      [title |-> "Tea or Nap", description |-> "School night",
       category |-> "health", urgency |-> "low", options |-> <<>>,
       userHistory |-> [totalDecisions |-> 4,
                        successRate |-> [num |-> 1, den |-> 2]]] }

Titles == {h.title : h \in Headers} \cup {""}
Descriptions == {descriptionOf(h) : h \in Headers}

Texts == {"Finish the project", "Go to sleep", " Best/Good/Bad? "}

\* an option text that is avoidance ("play") and productive ("study") at once
RiskTexts == {"Play and study"}
AllTexts == Texts \cup RiskTexts
ProText == "Saves time"
ConText == "Costs money"

(***************************************************************************)
(* Text classification of localAnalyzeDecision.  Each table holds, for the *)
(* texts above, what the string expression of the source evaluates to.     *)
(***************************************************************************)
\* `${titleLower} ${descLower}`
fullContext(title, description) ==
    toLowerCase(title) \o " " \o toLowerCase(description)

\* /work|project|...|office/i.test(fullContext)
workDecisionTable ==
    [title \in Titles |->
        [description \in Descriptions |->
            SomeIncluded(workWords, fullContext(title, description))]]

isWorkDecision(ctx) == workDecisionTable[ctx.title][descriptionOf(ctx)]

\* titleLower.split(/\s+/).filter(w => w.length > 3)
titleWordsTable == [title \in Titles |-> LongerThan3(split(toLowerCase(title)))]

titleWords(ctx) == titleWordsTable[ctx.title]

\* option.text.toLowerCase().trim()
optionTextTable == [text \in AllTexts |-> trim(toLowerCase(text))]

optionTextOf(option) == optionTextTable[option.text]

avoidanceTable == [text \in AllTexts |-> SomeIncluded(avoidanceWords, optionTextTable[text])]
productiveTable == [text \in AllTexts |-> SomeIncluded(productiveWords, optionTextTable[text])]

isAvoidance(option) == avoidanceTable[option.text]
isProductive(option) == productiveTable[option.text]

\* titleWords.forEach(word => { if (optionText.includes(word)) score += 10 })
titleMatchTable ==
    [title \in Titles |->
        [text \in AllTexts |-> CountIncluded(titleWordsTable[title], optionTextTable[text])]]

positiveTable == [text \in AllTexts |-> CountIncluded(positiveWords, optionTextTable[text])]
negativeTable == [text \in AllTexts |-> CountIncluded(negativeWords, optionTextTable[text])]

\* optionText.split(/\s+/).length
wordCountTable == [text \in AllTexts |-> Len(split(optionTextTable[text]))]

(***************************************************************************)
(* Exact fractions.  A JavaScript number n/d is [num |-> n, den |-> d];    *)
(* 0/0 is NaN, every comparison with NaN is false and Math.min of NaN and  *)
(* anything is NaN.                                                        *)
(***************************************************************************)
RECURSIVE GCD(_, _)
GCD(a, b) == IF b = 0 THEN a ELSE GCD(b, a % b)

\* the number n / d for n >= 0 and d >= 0, in lowest terms
Frac(n, d) ==
    IF d = 0 THEN [num |-> 0, den |-> 0]
    ELSE [num |-> n \div GCD(n, d), den |-> d \div GCD(n, d)]
IsNaN(x) == x.den = 0
FracGT(x, y) == ~IsNaN(x) /\ ~IsNaN(y) /\ x.num * y.den > y.num * x.den
FracEq(x, y) == ~IsNaN(x) /\ ~IsNaN(y) /\ x.num * y.den = y.num * x.den
FracGE(x, y) == FracGT(x, y) \/ FracEq(x, y)
FracAdd(x, y) ==
    IF IsNaN(x) \/ IsNaN(y) THEN Frac(0, 0)
    ELSE Frac(x.num * y.den + y.num * x.den, x.den * y.den)
FracMul(x, y) ==
    IF IsNaN(x) \/ IsNaN(y) THEN Frac(0, 0)
    ELSE Frac(x.num * y.num, x.den * y.den)
\* Math.min(x, y)
FracMin(x, y) ==
    IF IsNaN(x) \/ IsNaN(y) THEN Frac(0, 0)
    ELSE IF FracGT(x, y) THEN y ELSE x

(***************************************************************************)
(* Option Scorer: the body of options.map((option, index) => ...).         *)
(* index is zero-based as in the source.                                   *)
(***************************************************************************)
\* the penalty and the reward exchanged
workAdjustment_Swapped(ctx, option) ==
    IF isWorkDecision(ctx)
    THEN (IF isAvoidance(option) THEN 15 ELSE 0)
         + (IF isProductive(option) THEN -25 ELSE 0)
    ELSE 0

\* score -= 25 for avoidance, score += 15 for productive, work decisions only
workAdjustment(ctx, option) ==
    IF isWorkDecision(ctx)
    THEN (IF isAvoidance(option) THEN -25 ELSE 0)
         + (IF isProductive(option) THEN 15 ELSE 0)
    ELSE 0

titleRelevance(ctx, option) == 10 * titleMatchTable[ctx.title][option.text]

sentiment(option) == 5 * positiveTable[option.text] - 3 * negativeTable[option.text]

\* the weights of pros and cons exchanged
prosConsScore_Exchanged(option) == prosCount(option) * 7 - consCount(option) * 10

prosConsScore(option) == prosCount(option) * 10 - consCount(option) * 7

wordCount(option) == wordCountTable[option.text]
specificityBonus(option) ==
    IF wordCount(option) >= 2 /\ wordCount(option) <= 10 THEN 5 ELSE 0

\* Math.max(0, 3 - index)
positionBonus(index) == Max(0, 3 - index)

\* clamping that forgets the floor of 20
clampScore_NoFloor(score) == Min(95, score)

\* Math.min(95, Math.max(20, Math.round(score))); score is an integer
clampScore(score) == Min(95, Max(20, score))

unclampedScore(ctx, option, index) ==
    50 + workAdjustment(ctx, option) + titleRelevance(ctx, option)
    + sentiment(option) + prosConsScore(option) + specificityBonus(option)
    + positionBonus(index)

rawScore(ctx, option, index) == clampScore(unclampedScore(ctx, option, index))

\* productive options rated low before avoidance is looked at
riskLevel_ProductiveFirst(ctx, option) ==
    IF isProductive(option) THEN "low"
    ELSE IF isAvoidance(option) /\ isWorkDecision(ctx) THEN "high"
    ELSE "medium"

riskLevel(ctx, option) ==
    IF isAvoidance(option) /\ isWorkDecision(ctx) THEN "high"
    ELSE IF isProductive(option) THEN "low"
    ELSE "medium"

timeHorizon(ctx) ==
    IF ctx.urgency = "high" \/ ctx.urgency = "critical" THEN "short-term" ELSE "long-term"

\* the AIRanking built for options[index]; pos records the input position
\* of the option (it is not a field of the source's AIRanking)
scoreOption(ctx, index) ==
    LET option == ctx.options[index + 1] IN
    [option_id    |-> option.id,
     rank         |-> 0,
     score        |-> rawScore(ctx, option, index),
     risk_level   |-> riskLevel(ctx, option),
     time_horizon |-> timeHorizon(ctx),
     pos          |-> index]

RECURSIVE scoreFrom(_, _)
scoreFrom(ctx, index) ==
    IF index >= Len(ctx.options) THEN <<>>
    ELSE <<scoreOption(ctx, index)>> \o scoreFrom(ctx, index + 1)

\* options.map((option, index) => ...)
scoredOptions(ctx) == scoreFrom(ctx, 0)

(***************************************************************************)
(* Score Normalizer.                                                       *)
(***************************************************************************)
RECURSIVE scoresOf(_)
scoresOf(rankings) ==
    IF rankings = <<>> THEN <<>>
    ELSE <<Head(rankings).score>> \o scoresOf(Tail(rankings))

\* stable insertion of r behind every entry whose score is not smaller
\* the insertion that puts the lower score first
RECURSIVE InsertByScore_Ascending(_, _)
InsertByScore_Ascending(r, sorted) ==
    IF sorted = <<>> THEN <<r>>
    ELSE IF Head(sorted).score <= r.score
         THEN <<Head(sorted)>> \o InsertByScore_Ascending(r, Tail(sorted))
         ELSE <<r>> \o sorted

RECURSIVE InsertByScore(_, _)
InsertByScore(r, sorted) ==
    IF sorted = <<>> THEN <<r>>
    ELSE IF Head(sorted).score >= r.score
         THEN <<Head(sorted)>> \o InsertByScore(r, Tail(sorted))
         ELSE <<r>> \o sorted

\* a sort that leaves the list as it is
sortByScore_Unsorted(rankings) == rankings

\* rankings.sort((a, b) => b.score - a.score): descending and stable
RECURSIVE sortByScore(_)
sortByScore(rankings) ==
    IF rankings = <<>> THEN <<>>
    ELSE InsertByScore(rankings[Len(rankings)],
                       sortByScore(SubSeq(rankings, 1, Len(rankings) - 1)))

\* reassigned scores only 10 apart
spreadScore_Step10(i) == Max(25, Min(95, 85 - (i * 10)))

\* r.score = Math.max(25, Math.min(95, 85 - (i * 15))), i zero-based
spreadScore(i) == Max(25, Min(95, 85 - (i * 15)))

\* reassigning also at a spread of exactly 15
needsSpread_Inclusive(rankings) ==
    /\ Len(rankings) > 1
    /\ SeqMax(scoresOf(rankings)) - SeqMin(scoresOf(rankings)) <= 15

\* maxScore - minScore < 15 && rankings.length > 1
needsSpread(rankings) ==
    /\ Len(rankings) > 1
    /\ SeqMax(scoresOf(rankings)) - SeqMin(scoresOf(rankings)) < 15

RECURSIVE spreadFrom(_, _)
spreadFrom(sorted, i) ==
    IF sorted = <<>> THEN <<>>
    ELSE <<[Head(sorted) EXCEPT !.score = spreadScore(i)]>>
         \o spreadFrom(Tail(sorted), i + 1)

\* rankings.sort(...); rankings.forEach((r, i) => r.score = ...)
spreadScores(rankings) == spreadFrom(sortByScore(rankings), 0)

\* the scores left as the scorer gave them
normalizeScores_Off(rankings) == rankings

\* if (maxScore - minScore < 15 && rankings.length > 1) { ... }
normalizeScores(rankings) ==
    IF needsSpread(rankings) THEN spreadScores(rankings) ELSE rankings

RECURSIVE rankFrom(_, _)
rankFrom(sorted, i) ==
    IF sorted = <<>> THEN <<>>
    ELSE <<[Head(sorted) EXCEPT !.rank = i + 1]>> \o rankFrom(Tail(sorted), i + 1)

\* equal scores sharing a rank
assignRanks_Tied(rankings) ==
    [i \in 1..Len(rankings) |->
        [rankings[i] EXCEPT !.rank =
            1 + Cardinality({j \in 1..Len(rankings) :
                                rankings[j].score > rankings[i].score})]]

\* rankings.forEach((r, i) => r.rank = i + 1)
assignRanks(rankings) == rankFrom(rankings, 0)

rankOptions(rankings) == assignRanks(sortByScore(normalizeScores(rankings)))

(***************************************************************************)
(* Narrative Generator: the parts of the result that depend on the scores  *)
(* and the context.  Messages are named by a tag, one tag per literal.     *)
(***************************************************************************)
\* options.find(o => o.id === id); <<>> stands for undefined
RECURSIVE findById(_, _)
findById(options, id) ==
    IF options = <<>> THEN <<>>
    ELSE IF Head(options).id = id THEN <<Head(options)>>
    ELSE findById(Tail(options), id)

\* recommending the first option listed
recommendedAction_First(ctx, rankings) ==
    IF ctx.options[1].text # "" THEN ctx.options[1].text ELSE "Make a choice"

\* topOption?.text || options[0]?.text || 'Make a choice'
recommendedAction(ctx, rankings) ==
    LET topOption == findById(ctx.options, rankings[1].option_id) IN
    IF topOption # <<>> /\ topOption[1].text # "" THEN topOption[1].text
    ELSE IF ctx.options # <<>> /\ ctx.options[1].text # "" THEN ctx.options[1].text
    ELSE "Make a choice"

\* Math.max(...finalScores) - Math.min(...finalScores)
finalSpread(rankings) == SeqMax(scoresOf(rankings)) - SeqMin(scoresOf(rankings))

\* the confidence without its base of 0.5
confidenceOf_NoBase(spread) ==
    FracMin(Frac(95, 100), FracMul(Frac(spread, 100), Frac(4, 10)))

\* Math.min(0.95, 0.5 + (spread / 100) * 0.4)
confidenceOf(spread) ==
    FracMin(Frac(95, 100), FracAdd(Frac(1, 2), FracMul(Frac(spread, 100), Frac(4, 10))))

confidenceScore(rankings) == confidenceOf(finalSpread(rankings))

\* the comparison clause that closes generateReasoning
comparisonClause(rankings) ==
    IF finalSpread(rankings) < 15 THEN "close"
    ELSE IF finalSpread(rankings) > 30 THEN "clear_winner"
    ELSE "others_have_merit"

\* reduce((sum, o) => sum + (o.pros?.length || 0), 0)
RECURSIVE totalPros(_)
totalPros(options) ==
    IF options = <<>> THEN 0 ELSE prosCount(Head(options)) + totalPros(Tail(options))

\* reduce((sum, o) => sum + (o.cons?.length || 0), 0)
RECURSIVE totalCons(_)
totalCons(options) ==
    IF options = <<>> THEN 0 ELSE consCount(Head(options)) + totalCons(Tail(options))

\* (successRate * 100).toFixed(0)
toFixed0(x) == (2 * 100 * x.num + x.den) \div (2 * x.den)

extractKeyFactors(ctx) ==
    <<[factor |-> "category", category |-> ctx.category]>>
    \o (IF ctx.urgency = "high" \/ ctx.urgency = "critical"
        THEN <<[factor |-> "decide_soon"]>>
        ELSE <<[factor |-> "have_time"]>>)
    \o (IF Len(ctx.options) > 4
        THEN <<[factor |-> "many_options", count |-> Len(ctx.options)]>>
        ELSE IF Len(ctx.options) = 2
        THEN <<[factor |-> "two_paths"]>>
        ELSE <<[factor |-> "approaches", count |-> Len(ctx.options)]>>)
    \o (IF totalPros(ctx.options) > totalCons(ctx.options) * 2
        THEN <<[factor |-> "lots_of_upsides"]>>
        ELSE IF totalCons(ctx.options) > totalPros(ctx.options)
        THEN <<[factor |-> "challenges"]>>
        ELSE <<>>)
    \o (IF "userHistory" \in DOMAIN ctx /\ ctx.userHistory.totalDecisions > 0
        THEN <<[factor |-> "history",
                totalDecisions |-> ctx.userHistory.totalDecisions,
                rate |-> toFixed0(ctx.userHistory.successRate)]>>
        ELSE <<>>)

firstOptionFavored(ctx) ==
    /\ Len(ctx.options) > 0
    /\ prosCount(ctx.options[1]) > consCount(ctx.options[1]) + 2
tooManyOptions(ctx) == Len(ctx.options) > 5
urgencyPressure(ctx) == ctx.urgency = "critical"
avgPros(ctx) == Frac(totalPros(ctx.options), Len(ctx.options))
avgCons(ctx) == Frac(totalCons(ctx.options), Len(ctx.options))
positiveFraming(ctx) == FracGT(avgPros(ctx), FracMul(avgCons(ctx), Frac(2, 1)))
negativeFraming(ctx) == FracGT(avgCons(ctx), FracMul(avgPros(ctx), Frac(2, 1)))

DefaultBias == "balanced"

\* the urgency check made before the check for too many options
biasWarnings_PressureFirst(ctx) ==
    (IF firstOptionFavored(ctx) THEN <<"first_option_favored">> ELSE <<>>)
    \o (IF urgencyPressure(ctx) THEN <<"time_pressure">> ELSE <<>>)
    \o (IF tooManyOptions(ctx) THEN <<"too_many_choices">> ELSE <<>>)
    \o (IF positiveFraming(ctx) THEN <<"positive_framing">>
        ELSE IF negativeFraming(ctx) THEN <<"negative_framing">>
        ELSE <<>>)

\* the watchOuts pushed before the final length check
biasWarnings(ctx) ==
    (IF firstOptionFavored(ctx) THEN <<"first_option_favored">> ELSE <<>>)
    \o (IF tooManyOptions(ctx) THEN <<"too_many_choices">> ELSE <<>>)
    \o (IF urgencyPressure(ctx) THEN <<"time_pressure">> ELSE <<>>)
    \o (IF positiveFraming(ctx) THEN <<"positive_framing">>
        ELSE IF negativeFraming(ctx) THEN <<"negative_framing">>
        ELSE <<>>)

\* no default message
withDefaultBias_None(watchOuts) == watchOuts

\* if (watchOuts.length === 0) watchOuts.push(default)
withDefaultBias(watchOuts) ==
    IF Len(watchOuts) = 0 THEN <<DefaultBias>> ELSE watchOuts

detectBiases(ctx) == withDefaultBias(biasWarnings(ctx))

(***************************************************************************)
(* localAnalyzeDecision.  With no option at all rankings[0] is undefined   *)
(* and reading its option_id throws a TypeError.                           *)
(***************************************************************************)
localAnalyzeDecision(ctx) ==
    IF Len(ctx.options) = 0 THEN [status |-> "TypeError"]
    ELSE LET rankings == rankOptions(scoredOptions(ctx)) IN
         [status             |-> "ok",
          rankings           |-> rankings,
          comparison         |-> comparisonClause(rankings),
          confidence_score   |-> confidenceScore(rankings),
          key_factors        |-> extractKeyFactors(ctx),
          potential_biases   |-> detectBiases(ctx),
          recommended_action |-> recommendedAction(ctx, rankings)]

analyzeDecision(ctx) == localAnalyzeDecision(ctx)

(***************************************************************************)
(* Weekly Metrics Analyzer (lib/ai/insights-engine.ts).  A database null   *)
(* is a field the record does not have.                                    *)
(***************************************************************************)
\* o.outcome_type === 'positive' || (o.outcome_score && o.outcome_score >= 7)
isPositiveOutcome(o) ==
    \/ o.outcome_type = "positive"
    \/ ("outcome_score" \in DOMAIN o /\ o.outcome_score # 0 /\ o.outcome_score >= 7)

RECURSIVE countPositive(_)
countPositive(os) ==
    IF os = <<>> THEN 0
    ELSE (IF isPositiveOutcome(Head(os)) THEN 1 ELSE 0) + countPositive(Tail(os))

calculateSuccessRate(os) ==
    IF Len(os) = 0 THEN Frac(0, 1)
    ELSE Frac(countPositive(os), Len(os))

\* new Date(d.created_at).toISOString().split('T')[0]; the stored
\* timestamps are UTC, so the UTC day is the date part of the text
utcDay(created_at) == SubSeq(created_at, 1, 10)

\* Object.keys(dailyDecisionCounts)
activeDays(ds) == {utcDay(ds[i].created_at) : i \in 1..Len(ds)}

\* Object.values(dailyDecisionCounts).reduce((a, b) => a + b, 0)
RECURSIVE sumDailyCounts(_, _)
sumDailyCounts(ds, days) ==
    IF days = {} THEN 0
    ELSE LET day == CHOOSE x \in days : TRUE IN
         Cardinality({i \in 1..Len(ds) : utcDay(ds[i].created_at) = day})
         + sumDailyCounts(ds, days \ {day})

isHighUrgency(d) == d.urgency = "high" \/ d.urgency = "critical"
\* if (d.time_to_decide)
hasTimeToDecide(d) == "time_to_decide" \in DOMAIN d /\ d.time_to_decide # 0

highUrgencyCount(ds) == Cardinality({i \in 1..Len(ds) : isHighUrgency(ds[i])})
decisionsWithTime(ds) == Cardinality({i \in 1..Len(ds) : hasTimeToDecide(ds[i])})
incompleteCount(ds) == Cardinality({i \in 1..Len(ds) : ~ds[i].is_completed})

RECURSIVE totalTimeToDecide(_)
totalTimeToDecide(ds) ==
    IF ds = <<>> THEN 0
    ELSE (IF hasTimeToDecide(Head(ds)) THEN Head(ds).time_to_decide ELSE 0)
         + totalTimeToDecide(Tail(ds))

avgDailyDecisions(ds) == Frac(sumDailyCounts(ds, activeDays(ds)), Cardinality(activeDays(ds)))
urgencyRatio(ds) == Frac(highUrgencyCount(ds), Len(ds))
avgTimeToDecide(ds) ==
    IF decisionsWithTime(ds) > 0
    THEN Frac(totalTimeToDecide(ds), decisionsWithTime(ds))
    ELSE Frac(0, 1)
incompleteRatio(ds) == Frac(incompleteCount(ds), Len(ds))

\* the daily component without its cap
dailyComponent_NoCap(ds) == FracMul(avgDailyDecisions(ds), Frac(1, 5))

\* Math.min(avgDailyDecisions / 5, 2.5)
dailyComponent(ds) == FracMin(FracMul(avgDailyDecisions(ds), Frac(1, 5)), Frac(5, 2))
\* urgencyRatio * 2.5
urgencyComponent(ds) == FracMul(urgencyRatio(ds), Frac(5, 2))
\* the time component without its cap
timeComponent_NoCap(ds) == FracMul(avgTimeToDecide(ds), Frac(1, 300))

\* Math.min(avgTimeToDecide / 300, 2.5)
timeComponent(ds) == FracMin(FracMul(avgTimeToDecide(ds), Frac(1, 300)), Frac(5, 2))
\* incompleteRatio * 2.5
incompleteComponent(ds) == FracMul(incompleteRatio(ds), Frac(5, 2))

\* the weighted sum, Math.min(fatigue, 10)
weightedFatigue(ds) ==
    FracMin(FracAdd(FracAdd(FracAdd(dailyComponent(ds), urgencyComponent(ds)),
                            timeComponent(ds)),
                    incompleteComponent(ds)),
            Frac(10, 1))

\* the fatigue score without the guard for an empty list
calculateFatigueScore_NoGuard(ds) == weightedFatigue(ds)

calculateFatigueScore(ds) ==
    IF Len(ds) = 0 THEN Frac(0, 1) ELSE weightedFatigue(ds)

\* options && options.length > 0 && chosen
hasOptionsAndChoice(d) ==
    /\ "options" \in DOMAIN d
    /\ Len(d.options) > 0
    /\ "chosen_option" \in DOMAIN d

\* options[0]?.id === chosen.id
choseFirstOption(d) == hasOptionsAndChoice(d) /\ d.options[1].id = d.chosen_option.id
\* options[options.length - 1]?.id === chosen.id
choseLastOption(d) ==
    hasOptionsAndChoice(d) /\ d.options[Len(d.options)].id = d.chosen_option.id
\* d.confidence_score && d.confidence_score > 0.8
isHighConfidence(d) ==
    /\ "confidence_score" \in DOMAIN d
    /\ FracGT(d.confidence_score, Frac(8, 10))
\* d.time_to_decide && d.time_to_decide > 600
isLongDecision(d) == hasTimeToDecide(d) /\ d.time_to_decide > 600

firstOptionCount(ds) == Cardinality({i \in 1..Len(ds) : choseFirstOption(ds[i])})
lastOptionCount(ds) == Cardinality({i \in 1..Len(ds) : choseLastOption(ds[i])})
highConfidenceCount(ds) == Cardinality({i \in 1..Len(ds) : isHighConfidence(ds[i])})
longDecisionCount(ds) == Cardinality({i \in 1..Len(ds) : isLongDecision(ds[i])})

\* dividing by the decisions that have options and a choice
biasTotal_Chosen(ds) ==
    IF Cardinality({i \in 1..Len(ds) : hasOptionsAndChoice(ds[i])}) = 0 THEN 1
    ELSE Cardinality({i \in 1..Len(ds) : hasOptionsAndChoice(ds[i])})

\* decisions.length || 1
biasTotal(ds) == IF Len(ds) = 0 THEN 1 ELSE Len(ds)

analyzeBiases(ds) ==
    [first_option_bias   |-> Frac(firstOptionCount(ds), biasTotal(ds)),
     last_option_bias    |-> Frac(lastOptionCount(ds), biasTotal(ds)),
     status_quo_bias     |-> Frac(0, 1),
     overconfidence_bias |-> Frac(highConfidenceCount(ds), biasTotal(ds)),
     analysis_paralysis  |-> Frac(longDecisionCount(ds), biasTotal(ds))]

(***************************************************************************)
(* A caller assembles a DecisionContext option by option, each option with *)
(* its pros and then its cons, and hands it to analyzeDecision.            *)
(***************************************************************************)
Digits == "123456789"
IdOf(n) == CharAt(Digits, n)

\* POST /api/decisions forwards the options of the request body with the
\* ids they carry (the request with a userHistory), so two options may
\* share an id; the other callers number their options
NextIds(ctx) ==
    {IdOf(Len(ctx.options) + 1)}
    \cup (IF Len(ctx.options) = 1 /\ "userHistory" \in DOMAIN ctx
          THEN {ctx.options[1].id} ELSE {})

details(ctx) == totalPros(ctx.options) + totalCons(ctx.options)
\* pros and cons other than the pros of the first option
restDetails(ctx) ==
    IF ctx.options = <<>> THEN 0 ELSE details(ctx) - prosCount(ctx.options[1])

NoResult == [status |-> "none"]
NoMetrics == [status |-> "none"]
\* the create-decision page is not open; no request has been answered
NoPage == [status |-> "closed"]
NoResponse == [status |-> 0]
NoRun == [status |-> "idle"]
NoRequests == <<>>
StartOfTime == [day |-> 1, hour |-> 9]
NoStreak == [status |-> "none"]
NoInsights == [status |-> "none"]

withPro(option) ==
    [id |-> option.id, text |-> option.text,
     pros |-> (IF "pros" \in DOMAIN option THEN option.pros ELSE <<>>) \o <<ProText>>,
     cons |-> (IF "cons" \in DOMAIN option THEN option.cons ELSE <<>>)]

withCon(option) ==
    [id |-> option.id, text |-> option.text,
     pros |-> (IF "pros" \in DOMAIN option THEN option.pros ELSE <<>>),
     cons |-> (IF "cons" \in DOMAIN option THEN option.cons ELSE <<>>) \o <<ConText>>]

AddOption(text, id) ==
    /\ result = NoResult
    /\ Len(context.options) < MaxPlainOptions
    /\ Len(context.options) < MaxOptions \/ restDetails(context) = 0
    /\ context' = [context EXCEPT !.options = @ \o <<[id |-> id, text |-> text]>>]
    /\ UNCHANGED <<result, decisions, outcomes, metrics, page, response, insights, streak, clock, requests, run>>

AddPro ==
    /\ result = NoResult
    /\ Len(context.options) >= 1
    /\ Len(context.options) <= MaxOptions
    /\ details(context) < MaxDetails
    /\ consCount(context.options[Len(context.options)]) = 0
    /\ context' = [context EXCEPT !.options[Len(context.options)] = withPro(@)]
    /\ UNCHANGED <<result, decisions, outcomes, metrics, page, response, insights, streak, clock, requests, run>>

AddCon ==
    /\ result = NoResult
    /\ Len(context.options) >= 1
    /\ Len(context.options) <= MaxOptions
    /\ details(context) < MaxDetails
    /\ context' = [context EXCEPT !.options[Len(context.options)] = withCon(@)]
    /\ UNCHANGED <<result, decisions, outcomes, metrics, page, response, insights, streak, clock, requests, run>>

Analyze ==
    /\ result = NoResult
    /\ result' = analyzeDecision(context)
    /\ UNCHANGED <<context, decisions, outcomes, metrics, page, response, insights, streak, clock, requests, run>>

Init ==
    /\ context \in Headers
    /\ result = NoResult
    /\ decisions = <<>>
    /\ outcomes = <<>>
    /\ metrics = NoMetrics
    /\ page = NoPage
    /\ response = NoResponse
    /\ insights = NoInsights
    /\ streak = NoStreak
    /\ clock = StartOfTime
    /\ requests = NoRequests
    /\ run = NoRun

Next ==
    \/ \E text \in Texts : \E id \in NextIds(context) : AddOption(text, id)
    \/ AddPro
    \/ AddCon
    \/ Analyze

Spec == Init /\ [][Next]_vars

(***************************************************************************)
(* The dashboard metrics of PATCH /api/insights over the stored decisions  *)
(* and outcomes of a user.  Rows are stored one at a time; an outcome row  *)
(* belongs to a stored decision.                                           *)
(***************************************************************************)
TwoOptions == <<[id |-> "a", text |-> "Stay"], [id |-> "b", text |-> "Go"]>>

DecisionSamples ==
    { [category |-> "work", urgency |-> "critical", options |-> TwoOptions,
       chosen_option |-> [id |-> "a"], confidence_score |-> Frac(9, 10),
       time_to_decide |-> 900, is_completed |-> FALSE,
       created_at |-> "2026-03-02T09:15:00+00:00"],
      [category |-> "health", urgency |-> "low", options |-> TwoOptions,
       chosen_option |-> [id |-> "b"], is_completed |-> TRUE,
       created_at |-> "2026-03-03T18:40:00+00:00"],
      [category |-> "work", urgency |-> "high", options |-> <<>>,
       confidence_score |-> Frac(1, 2), time_to_decide |-> 120,
       is_completed |-> TRUE, created_at |-> "2026-03-02T22:05:00+00:00"] }

OutcomeSamples ==
    { [outcome_type |-> "positive", outcome_score |-> 8],
      [outcome_type |-> "negative", outcome_score |-> 9],
      [outcome_type |-> "neutral"] }

withId(row, id) == [f \in DOMAIN row \cup {"id"} |-> IF f = "id" THEN id ELSE row[f]]
withDecisionId(row, id) ==
    [f \in DOMAIN row \cup {"decision_id"} |-> IF f = "decision_id" THEN id ELSE row[f]]

AddDecision(d) ==
    /\ metrics = NoMetrics
    /\ Len(decisions) < MaxDecisions
    /\ outcomes = <<>> \/ Len(decisions) < MaxHistory
    /\ decisions' = Append(decisions, withId(d, Len(decisions) + 1))
    /\ UNCHANGED <<context, result, outcomes, metrics, page, response, insights, streak, clock, requests, run>>

AddOutcome(o) ==
    /\ metrics = NoMetrics
    /\ Len(decisions) <= MaxHistory
    /\ Len(outcomes) < Len(decisions)
    /\ outcomes' = Append(outcomes, withDecisionId(o, Len(outcomes) + 1))
    /\ UNCHANGED <<context, result, decisions, metrics, page, response, insights, streak, clock, requests, run>>

\* const metrics = { totalDecisions, completedDecisions, successRate, ... }
ComputeMetrics ==
    /\ metrics = NoMetrics
    /\ metrics' =
           [status             |-> "ok",
            totalDecisions     |-> Len(decisions),
            completedDecisions |-> Len(decisions) - incompleteCount(decisions),
            successRate        |-> calculateSuccessRate(outcomes),
            fatigueScore       |-> calculateFatigueScore(decisions),
            biasAnalysis       |-> analyzeBiases(decisions)]
    /\ UNCHANGED <<context, result, decisions, outcomes, page, response, insights, streak, clock, requests, run>>

InitMetrics ==
    /\ context = [title |-> "", category |-> "general", urgency |-> "medium",
                  options |-> <<>>]
    /\ result = NoResult
    /\ decisions = <<>>
    /\ outcomes = <<>>
    /\ metrics = NoMetrics
    /\ page = NoPage
    /\ response = NoResponse
    /\ insights = NoInsights
    /\ streak = NoStreak
    /\ clock = StartOfTime
    /\ requests = NoRequests
    /\ run = NoRun

NextMetrics ==
    \/ \E d \in DecisionSamples : AddDecision(d)
    \/ \E o \in OutcomeSamples : AddOutcome(o)
    \/ ComputeMetrics

SpecMetrics == InitMetrics /\ [][NextMetrics]_vars

(***************************************************************************)
(* The fatigue score over long histories.  calculateFatigueScore only      *)
(* counts and sums over the rows, so the rows are stored in the order of   *)
(* the samples; the samples cover every urgency, an absent, a zero, a      *)
(* short, a long and a very long time_to_decide, both completion flags and *)
(* three calendar days.                                                    *)
(***************************************************************************)
FatigueSamples ==
    << [category |-> "work", urgency |-> "critical", options |-> TwoOptions,
        time_to_decide |-> 100000, is_completed |-> FALSE,
        created_at |-> "2026-03-02T09:15:00+00:00"],
       [category |-> "work", urgency |-> "high", options |-> TwoOptions,
        time_to_decide |-> 0, is_completed |-> TRUE,
        created_at |-> "2026-03-02T11:30:00+00:00"],
       [category |-> "health", urgency |-> "medium", options |-> TwoOptions,
        is_completed |-> FALSE,
        created_at |-> "2026-03-02T23:59:59+00:00"],
       [category |-> "health", urgency |-> "low", options |-> TwoOptions,
        time_to_decide |-> 120, is_completed |-> TRUE,
        created_at |-> "2026-03-03T00:00:00+00:00"],
       [category |-> "general", urgency |-> "low", options |-> TwoOptions,
        time_to_decide |-> 900, is_completed |-> FALSE,
        created_at |-> "2026-03-04T18:40:00+00:00"] >>

\* no row is stored yet, or the row stored last is one of the first k samples
lastWithin(ds, k) ==
    IF ds = <<>> THEN TRUE
    ELSE \E j \in 1..k : ds[Len(ds)] = withId(FatigueSamples[j], Len(ds))

StoreDecision(k) ==
    /\ metrics = NoMetrics
    /\ Len(decisions) < MaxDayDecisions
    /\ lastWithin(decisions, k)
    /\ decisions' = Append(decisions, withId(FatigueSamples[k], Len(decisions) + 1))
    /\ UNCHANGED <<context, result, outcomes, metrics, page, response, insights, streak, clock, requests, run>>

NextFatigue ==
    \/ \E k \in 1..Len(FatigueSamples) : StoreDecision(k)
    \/ ComputeMetrics

SpecFatigue == InitMetrics /\ [][NextFatigue]_vars

(***************************************************************************)
(* Insight generation (lib/ai/insights-engine.ts).  An insight is a record *)
(* whose optional fields are absent when the source does not set them; the *)
(* insight_text is the tuple of the pieces of its template literal.        *)
(***************************************************************************)
UserId == "user-1"
PeriodStart == "2026-02-26T09:00:00.000Z"
PeriodEnd == "2026-03-05T09:00:00.000Z"

\* String.prototype.toUpperCase, one character
UpperChar(c) ==
    IF \E i \in 1..Len(LowerCase) : CharAt(LowerCase, i) = c
    THEN CharAt(UpperCase, CHOOSE i \in 1..Len(LowerCase) : CharAt(LowerCase, i) = c)
    ELSE c

\* Number.prototype.toFixed(digits) for unit = 10^digits: the number of
\* 1/unit steps nearest to x
toFixed(x, unit) ==
    IF IsNaN(x) THEN "NaN" ELSE (2 * x.num * unit + x.den) \div (2 * x.den)

percent(x) == FracMul(x, Frac(100, 1))

\* the fields every insight carries
withPeriod(insight) ==
    [f \in DOMAIN insight \cup {"user_id", "period_start", "period_end"} |->
        CASE f = "user_id" -> UserId
          [] f = "period_start" -> PeriodStart
          [] f = "period_end" -> PeriodEnd
          [] OTHER -> insight[f]]

ActionItemsQuality ==
    <<"Review recent decisions that didn't work out",
      "Consider seeking input before major choices">>

\* the success rate without the alert on a low rate
successInsights_NoAlert(m) ==
    IF FracGE(m.successRate, Frac(7, 10))
    THEN << withPeriod(
            [insight_type  |-> "weekly",
             insight_title |-> "Strong Decision Performance",
             insight_text  |-> <<"Your success rate of ",
                                 toFixed(percent(m.successRate), 10),
                                 "% shows excellent decision-making skills this period.">>,
             metrics       |-> [successRate |-> m.successRate],
             priority      |-> 5]) >>
    ELSE <<>>

\* if (metrics.successRate >= 0.7) ... else if (metrics.successRate < 0.5)
successInsights(m) ==
    IF FracGE(m.successRate, Frac(7, 10))
    THEN << withPeriod(
            [insight_type  |-> "weekly",
             insight_title |-> "Strong Decision Performance",
             insight_text  |-> <<"Your success rate of ",
                                 toFixed(percent(m.successRate), 10),
                                 "% shows excellent decision-making skills this period.">>,
             metrics       |-> [successRate |-> m.successRate],
             priority      |-> 5]) >>
    ELSE IF FracGT(Frac(1, 2), m.successRate)
    THEN << withPeriod(
            [insight_type  |-> "weekly",
             insight_title |-> "Decision Quality Alert",
             insight_text  |-> <<"Your success rate of ",
                                 toFixed(percent(m.successRate), 10),
                                 "% suggests room for improvement. Consider taking more time for important decisions.">>,
             metrics       |-> [successRate |-> m.successRate],
             action_items  |-> ActionItemsQuality,
             priority      |-> 8]) >>
    ELSE <<>>

ActionItemsFatigue ==
    <<"Batch similar decisions together",
      "Delegate minor decisions when possible",
      "Set decision-making time limits">>

\* if (metrics.fatigueScore >= 7)
fatigueInsights(m) ==
    IF FracGE(m.fatigueScore, Frac(7, 1))
    THEN << withPeriod(
            [insight_type  |-> "pattern",
             insight_title |-> "High Decision Fatigue Detected",
             insight_text  |-> <<"Your fatigue score of ",
                                 toFixed(m.fatigueScore, 10),
                                 "/10 indicates you might be overwhelmed. Consider batching smaller decisions.">>,
             metrics       |-> [fatigueScore |-> m.fatigueScore],
             action_items  |-> ActionItemsFatigue,
             priority      |-> 9]) >>
    ELSE <<>>

\* Object.entries(metrics.biasAnalysis): the keys in the order of the
\* literal of analyzeBiases
BiasKeys ==
    <<"first_option_bias", "last_option_bias", "status_quo_bias",
      "overconfidence_bias", "analysis_paralysis">>

biasDescriptions ==
    [first_option_bias   |-> "You tend to choose the first option presented. Consider evaluating all options equally.",
     last_option_bias    |-> "You tend to favor the last option you consider. The earlier options might be better.",
     overconfidence_bias |-> "Your high confidence doesn't always match outcomes. Consider seeking second opinions.",
     analysis_paralysis  |-> "You spend significant time on decisions. Try setting time limits for choices."]

\* bias.replace(/_/g, ' ').replace(/\b\w/g, l => l.toUpperCase())
RECURSIVE titleCaseFrom(_, _)
titleCaseFrom(s, i) ==
    IF i > Len(s) THEN ""
    ELSE (IF CharAt(s, i) = "_" THEN " "
          ELSE IF i = 1 \/ CharAt(s, i - 1) = "_" THEN UpperChar(CharAt(s, i))
          ELSE CharAt(s, i))
         \o titleCaseFrom(s, i + 1)

biasTitle(bias) == titleCaseFrom(bias, 1) \o " Detected"

RECURSIVE biasInsightsFrom(_, _)
biasInsightsFrom(m, i) ==
    IF i > Len(BiasKeys) THEN <<>>
    ELSE LET bias == BiasKeys[i]
             score == m.biasAnalysis[bias]
         IN  (IF FracGT(score, Frac(4, 10)) /\ bias \in DOMAIN biasDescriptions
              THEN << withPeriod(
                      [insight_type  |-> "pattern",
                       insight_title |-> biasTitle(bias),
                       insight_text  |-> <<biasDescriptions[bias]>>,
                       metrics       |-> [b \in {bias} |-> score],
                       priority      |-> 7]) >>
              ELSE <<>>)
             \o biasInsightsFrom(m, i + 1)

biasInsights(m) == biasInsightsFrom(m, 1)

\* d.category || 'general'
categoryOf(d) ==
    IF "category" \in DOMAIN d /\ d.category # "" THEN d.category ELSE "general"

\* the keys of categoryStats in the order of their insertion
RECURSIVE categoriesFrom(_, _)
categoriesFrom(ds, seen) ==
    IF ds = <<>> THEN <<>>
    ELSE IF categoryOf(Head(ds)) \in seen THEN categoriesFrom(Tail(ds), seen)
    ELSE <<categoryOf(Head(ds))>>
         \o categoriesFrom(Tail(ds), seen \cup {categoryOf(Head(ds))})

\* outcomesByDecision.get(d.id): the last outcome stored for the decision
hasPositiveOutcome(d, os) ==
    LET mine == {i \in 1..Len(os) : os[i].decision_id = d.id} IN
    /\ mine # {}
    /\ isPositiveOutcome(os[CHOOSE i \in mine : \A j \in mine : j <= i])

\* d.confidence_score || 0
confidenceOrZero(d) ==
    IF "confidence_score" \in DOMAIN d THEN d.confidence_score ELSE Frac(0, 1)

RECURSIVE confidenceSum(_, _)
confidenceSum(ds, category) ==
    IF ds = <<>> THEN Frac(0, 1)
    ELSE FracAdd(IF categoryOf(Head(ds)) = category
                 THEN confidenceOrZero(Head(ds)) ELSE Frac(0, 1),
                 confidenceSum(Tail(ds), category))

categoryStats(ds, os, category) ==
    LET members == {i \in 1..Len(ds) : categoryOf(ds[i]) = category} IN
    [category      |-> category,
     total         |-> Cardinality(members),
     positive      |-> Cardinality({i \in members : hasPositiveOutcome(ds[i], os)}),
     avgConfidence |-> FracMul(confidenceSum(ds, category),
                               Frac(1, Cardinality(members)))]

\* the entries of the result, one per category, in insertion order
analyzeCategoryPerformance(ds, os) ==
    LET cats == categoriesFrom(ds, {}) IN
    [i \in 1..Len(cats) |-> categoryStats(ds, os, cats[i])]

\* stats.total > 0 ? stats.positive / stats.total : 0
rateOf(stats) ==
    IF stats.total > 0 THEN Frac(stats.positive, stats.total) ELSE Frac(0, 1)

NoCategory == [category |-> "none", total |-> 0, positive |-> 0]

\* the fold that also moves on an equal rate
RECURSIVE bestCategoryFrom_Inclusive(_, _)
bestCategoryFrom_Inclusive(best, entries) ==
    IF entries = <<>> THEN best
    ELSE bestCategoryFrom_Inclusive(
             IF FracGE(rateOf(Head(entries)), rateOf(best)) THEN Head(entries) ELSE best,
             Tail(entries))

\* categories.reduce((best, [cat, stats]) => rate > bestRate ? [cat, stats] : best, ...)
RECURSIVE bestCategoryFrom(_, _)
bestCategoryFrom(best, entries) ==
    IF entries = <<>> THEN best
    ELSE bestCategoryFrom(
             IF FracGT(rateOf(Head(entries)), rateOf(best)) THEN Head(entries) ELSE best,
             Tail(entries))

bestCategory(m) == bestCategoryFrom(NoCategory, m.categoryPerformance)

\* bestCategory[0].charAt(0).toUpperCase() + bestCategory[0].slice(1)
capitalize(s) ==
    IF Len(s) = 0 THEN "" ELSE UpperChar(CharAt(s, 1)) \o SubSeq(s, 2, Len(s))

\* if (bestCategory[0] !== 'none' && bestCategory[1].total >= 3)
categoryInsights(m) ==
    LET best == bestCategory(m) IN
    IF best.category # "none" /\ best.total >= 3
    THEN << withPeriod(
            [insight_type  |-> "category",
             insight_title |-> "Strong in " \o capitalize(best.category) \o " Decisions",
             insight_text  |-> <<"You excel at ", best.category,
                                 " decisions with a ",
                                 toFixed(percent(Frac(best.positive, best.total)), 1),
                                 "% success rate.">>,
             category      |-> best.category,
             metrics       |-> m.categoryPerformance,
             priority      |-> 4]) >>
    ELSE <<>>

generateInsightsFromMetrics(m) ==
    successInsights(m) \o fatigueInsights(m) \o biasInsights(m) \o categoryInsights(m)

\* the fields of UserMetrics that generateInsightsFromMetrics reads
userMetrics(ds, os) ==
    [successRate         |-> calculateSuccessRate(os),
     fatigueScore        |-> calculateFatigueScore(ds),
     biasAnalysis        |-> analyzeBiases(ds),
     categoryPerformance |-> analyzeCategoryPerformance(ds, os)]

(***************************************************************************)
(* generateWeeklyInsightsForUser over the decisions and outcomes of the    *)
(* week.  The two selects and the insert may fail; a failed select throws, *)
(* a failed insert is logged and the insights are returned all the same.   *)
(***************************************************************************)
StoreWeekDecision(d) ==
    /\ insights = NoInsights
    /\ Len(decisions) < MaxWeekDecisions
    /\ decisions' = Append(decisions, withId(d, Len(decisions) + 1))
    /\ UNCHANGED <<context, result, outcomes, metrics, page, response, insights, streak, clock, requests, run>>

StoreWeekOutcome(o) ==
    /\ insights = NoInsights
    /\ Len(outcomes) < Len(decisions)
    /\ outcomes' = Append(outcomes, withDecisionId(o, Len(outcomes) + 1))
    /\ UNCHANGED <<context, result, decisions, metrics, page, response, insights, streak, clock, requests, run>>

generateWeeklyInsightsForUser(decisionsError, outcomesError, insertError) ==
    /\ insights = NoInsights
    /\ insights' =
           IF decisionsError THEN [status |-> "error"]
           ELSE IF Len(decisions) = 0
           THEN [status |-> "ok", returned |-> <<>>, stored |-> <<>>]
           ELSE IF outcomesError THEN [status |-> "error"]
           ELSE LET generated == generateInsightsFromMetrics(userMetrics(decisions, outcomes))
                IN  [status   |-> "ok",
                     returned |-> generated,
                     stored   |-> IF Len(generated) > 0 /\ ~insertError
                                  THEN generated ELSE <<>>]
    /\ UNCHANGED <<context, result, decisions, outcomes, metrics, page, response, streak, clock, requests, run>>

NextInsights ==
    \/ \E d \in DecisionSamples : StoreWeekDecision(d)
    \/ \E o \in OutcomeSamples : StoreWeekOutcome(o)
    \/ \E decisionsError, outcomesError, insertError \in BOOLEAN :
           generateWeeklyInsightsForUser(decisionsError, outcomesError, insertError)

SpecInsights == InitMetrics /\ [][NextInsights]_vars

(***************************************************************************)
(* Contexts without pros and cons whose options are drawn from all texts,  *)
(* the doubly classified one included.                                     *)
(***************************************************************************)
NextRisk ==
    \/ \E text \in AllTexts : \E id \in NextIds(context) :
           Len(context.options) < MaxRiskOptions /\ AddOption(text, id)
    \/ Analyze

SpecRisk == Init /\ [][NextRisk]_vars

(***************************************************************************)
(* The callers of analyzeDecision: the create-decision page, POST          *)
(* /api/decisions and POST /api/decisions/[id]/analyze.  decisions is the  *)
(* decisions table of the signed-in user without its ai_* columns, which   *)
(* no caller reads back; context and result are the argument and the       *)
(* outcome of the latest invocation of analyzeDecision.                    *)
(***************************************************************************)
\* what the user types into an option field of the page
PageValues == {"", "Go to sleep"}
PageTitles == {"", "Finish project or sleep"}

\* options.length < 6
MaxPageOptions == 6

\* options.filter(Boolean)
RECURSIVE filterBoolean(_)
filterBoolean(options) ==
    IF options = <<>> THEN <<>>
    ELSE (IF Head(options) # "" THEN <<Head(options)>> ELSE <<>>)
         \o filterBoolean(Tail(options))

\* validOptions.indexOf(option), zero-based
indexOf(options, option) ==
    (CHOOSE i \in 1..Len(options) :
        options[i] = option /\ \A j \in 1..(i - 1) : options[j] # option) - 1

diverseCons ==
    << <<"May lead to regret later", "Opportunity cost of not choosing alternatives">>,
       <<"Could have unforeseen consequences", "Might not align with long-term goals">>,
       <<"Takes time and energy", "Success depends on external factors">>,
       <<"Requires commitment to see through", "May conflict with other priorities">>,
       <<"Not reversible easily", "Could strain resources">> >>

\* generateDetailedProsAndCons for an option text of PageValues and the
\* empty context text: no keyword class matches, the only action word is
\* "go", so no pro is generated and the cons are chosen by position
generateDetailedProsAndCons(option, validOptions) ==
    [pros |-> <<>>,
     cons |-> diverseCons[(indexOf(validOptions, option) % Len(diverseCons)) + 1]]

pageOptionId(index) == "option-" \o CharAt("012345", index + 1)

RECURSIVE pageOptionsFrom(_, _)
pageOptionsFrom(validOptions, i) ==
    IF i > Len(validOptions) THEN <<>>
    ELSE <<[id   |-> pageOptionId(i - 1),
            text |-> validOptions[i],
            pros |-> generateDetailedProsAndCons(validOptions[i], validOptions).pros,
            cons |-> generateDetailedProsAndCons(validOptions[i], validOptions).cons]>>
         \o pageOptionsFrom(validOptions, i + 1)

\* the DecisionContext of handleAnalyze
pageContext(title, validOptions) ==
    [title |-> title, description |-> "",
     options |-> pageOptionsFrom(validOptions, 1),
     category |-> "Personal", urgency |-> "medium"]

\* parseInt(ranking.option_id.replace('option-', '')), as a one-based index
pageOptionIndex(option_id) ==
    CHOOSE i \in 1..MaxPageOptions : pageOptionId(i - 1) = option_id

RECURSIVE optionScoresFrom(_, _, _)
optionScoresFrom(ctx, rankings, i) ==
    IF i > Len(rankings) THEN <<>>
    ELSE LET option == ctx.options[pageOptionIndex(rankings[i].option_id)] IN
         <<[option |-> option.text,
            score  |-> rankings[i].score,
            pros   |-> IF Len(option.pros) > 0 THEN option.pros
                       ELSE <<"Addresses the current situation",
                              "Provides a clear path forward">>,
            cons   |-> IF Len(option.cons) > 0 THEN option.cons
                       ELSE <<"May have unexpected consequences",
                              "Requires careful consideration">>]>>
         \o optionScoresFrom(ctx, rankings, i + 1)

\* opt.substring(0, 10).replace(/\s/g, '-')
RECURSIVE dashed(_)
dashed(s) ==
    IF s = "" THEN ""
    ELSE (IF IsSpace(CharAt(s, 1)) THEN "-" ELSE CharAt(s, 1))
         \o dashed(SubSeq(s, 2, Len(s)))

savedOptionId(idx, opt) ==
    "opt-" \o CharAt("012345", idx + 1) \o "-" \o dashed(SubSeq(opt, 1, Min(10, Len(opt))))

\* analysisResult?.optionScores.find(s => s.option === opt)?.pros || []
scoredDetails(optionScores, opt) ==
    IF \E i \in 1..Len(optionScores) : optionScores[i].option = opt
    THEN LET i == CHOOSE i \in 1..Len(optionScores) :
                      /\ optionScores[i].option = opt
                      /\ \A j \in 1..(i - 1) : optionScores[j].option # opt
         IN [pros |-> optionScores[i].pros, cons |-> optionScores[i].cons]
    ELSE [pros |-> <<>>, cons |-> <<>>]

RECURSIVE formattedOptionsFrom(_, _, _)
formattedOptionsFrom(validOptions, optionScores, i) ==
    IF i > Len(validOptions) THEN <<>>
    ELSE <<[id   |-> savedOptionId(i - 1, validOptions[i]),
            text |-> validOptions[i],
            pros |-> scoredDetails(optionScores, validOptions[i]).pros,
            cons |-> scoredDetails(optionScores, validOptions[i]).cons]>>
         \o formattedOptionsFrom(validOptions, optionScores, i + 1)

\* useState initial values
OpenPage ==
    /\ page = NoPage
    /\ page' = [status |-> "open", title |-> "", options |-> <<"", "">>,
                analysisComplete |-> FALSE, optionScores |-> <<>>, error |-> ""]
    /\ UNCHANGED <<context, result, decisions, outcomes, metrics, response, insights, streak, clock, requests, run>>

setTitle(title) ==
    /\ page.status = "open"
    /\ page.title # title
    /\ page' = [page EXCEPT !.title = title]
    /\ UNCHANGED <<context, result, decisions, outcomes, metrics, response, insights, streak, clock, requests, run>>

addOption ==
    /\ page.status = "open"
    /\ Len(page.options) < MaxPageOptions
    /\ Len(page.options) < MaxFields
    /\ page' = [page EXCEPT !.options = @ \o <<"">>]
    /\ UNCHANGED <<context, result, decisions, outcomes, metrics, response, insights, streak, clock, requests, run>>

removeOption(index) ==
    /\ page.status = "open"
    /\ index \in 1..Len(page.options)
    /\ Len(page.options) > 2
    /\ page' = [page EXCEPT !.options =
                    SubSeq(@, 1, index - 1) \o SubSeq(@, index + 1, Len(@))]
    /\ UNCHANGED <<context, result, decisions, outcomes, metrics, response, insights, streak, clock, requests, run>>

updateOption(index, value) ==
    /\ page.status = "open"
    /\ index \in 1..Len(page.options)
    /\ page.options[index] # value
    /\ page' = [page EXCEPT !.options[index] = value]
    /\ UNCHANGED <<context, result, decisions, outcomes, metrics, response, insights, streak, clock, requests, run>>

handleAnalyze ==
    /\ page.status = "open"
    /\ LET validOptions == filterBoolean(page.options) IN
       IF Len(validOptions) < 2
       THEN /\ page' = [page EXCEPT !.analysisComplete = FALSE,
                            !.error = "Please provide at least 2 options to analyze"]
            /\ UNCHANGED <<context, result>>
       ELSE IF trim(page.title) = ""
       THEN /\ page' = [page EXCEPT !.analysisComplete = FALSE,
                            !.error = "Please provide a decision title"]
            /\ UNCHANGED <<context, result>>
       ELSE LET ctx == pageContext(page.title, validOptions)
                analysis == analyzeDecision(ctx)
            IN  /\ context' = ctx
                /\ result' = analysis
                /\ page' = [page EXCEPT
                       !.analysisComplete = TRUE,
                       !.error = "",
                       !.optionScores = optionScoresFrom(ctx, analysis.rankings, 1)]
    /\ UNCHANGED <<decisions, outcomes, metrics, response, insights, streak, clock, requests, run>>

\* the save button is rendered once the analysis is complete; the user is
\* signed in; after the insert the page redirects to the saved decision
handleSave ==
    /\ page.status = "open"
    /\ page.analysisComplete
    /\ Len(decisions) < MaxStored
    /\ LET validOptions == filterBoolean(page.options) IN
       decisions' = Append(decisions,
           [id |-> Len(decisions) + 1,
            title |-> page.title,
            description |-> "",
            options |-> formattedOptionsFrom(validOptions, page.optionScores, 1),
            category |-> "personal",
            urgency |-> "medium",
            is_completed |-> FALSE])
    /\ page' = NoPage
    /\ UNCHANGED <<context, result, outcomes, metrics, response, insights, streak, clock, requests, run>>

handleStartOver ==
    /\ page.status = "open"
    /\ page.analysisComplete
    /\ page' = [page EXCEPT !.title = "", !.options = <<"", "">>,
                    !.analysisComplete = FALSE, !.optionScores = <<>>,
                    !.error = ""]
    /\ UNCHANGED <<context, result, decisions, outcomes, metrics, response, insights, streak, clock, requests, run>>

\* request bodies of POST /api/decisions
BodyOptions ==
    { <<>>,
      <<[id |-> "1", text |-> "Finish the project"]>>,
      <<[id |-> "1", text |-> "Finish the project"], [id |-> "2", text |-> "Go to sleep"]>> }

Bodies ==
    [title : {"", "Tea or Nap"}, kind : {"array"}, options : BodyOptions,
     analyze : BOOLEAN]
    \cup [title : {"Tea or Nap"}, kind : {"missing", "string"}, options : {<<>>},
          analyze : {TRUE}]

\* userHistory: profiles.total_decisions counts the inserted decisions; no
\* outcome is recorded, so successRate is the default 0.5
historyOf(ds) == [totalDecisions |-> Len(ds), successRate |-> Frac(1, 2)]

\* !title || !options || !Array.isArray(options) || options.length < 2
invalidBody(body) ==
    \/ body.title = ""
    \/ body.kind # "array"
    \/ Len(body.options) < 2

\* POST /api/decisions of an authenticated user
PostDecision(body) ==
    /\ Len(decisions) < MaxStored
    /\ IF invalidBody(body)
       THEN /\ response' = [status |-> 400]
            /\ UNCHANGED <<context, result, decisions>>
       ELSE LET ctx == [title |-> body.title, category |-> "general",
                        urgency |-> "medium", options |-> body.options,
                        userHistory |-> historyOf(decisions)]
                row == [id |-> Len(decisions) + 1, title |-> body.title,
                        category |-> "general", urgency |-> "medium",
                        options |-> body.options, is_completed |-> FALSE]
            IN  /\ IF body.analyze
                   THEN /\ context' = ctx
                        /\ result' = analyzeDecision(ctx)
                   ELSE UNCHANGED <<context, result>>
                /\ decisions' = Append(decisions, row)
                /\ response' = [status |-> 201]
    /\ UNCHANGED <<outcomes, metrics, page, insights, streak, clock, requests, run>>

\* the stored row as a DecisionContext
storedContext(decision, ds) ==
    [f \in ({"title", "category", "urgency", "options", "userHistory"}
            \cup (IF "description" \in DOMAIN decision /\ decision.description # ""
                  THEN {"description"} ELSE {})) |->
        IF f = "userHistory" THEN historyOf(ds) ELSE decision[f]]

\* POST /api/decisions/[id]/analyze of an authenticated user
Reanalyze(id) ==
    /\ IF id \notin 1..Len(decisions)
       THEN /\ response' = [status |-> 404]
            /\ UNCHANGED <<context, result, decisions>>
       ELSE LET ctx == storedContext(decisions[id], decisions)
                analysis == analyzeDecision(ctx)
            IN  /\ context' = ctx
                /\ result' = analysis
                /\ response' = [status |-> IF analysis.status = "ok" THEN 200 ELSE 500]
                /\ UNCHANGED decisions
    /\ UNCHANGED <<outcomes, metrics, page, insights, streak, clock, requests, run>>

InitCallers ==
    /\ context = [title |-> "", category |-> "general", urgency |-> "medium",
                  options |-> <<>>]
    /\ result = NoResult
    /\ decisions = <<>>
    /\ outcomes = <<>>
    /\ metrics = NoMetrics
    /\ page = NoPage
    /\ response = NoResponse
    /\ insights = NoInsights
    /\ streak = NoStreak
    /\ clock = StartOfTime
    /\ requests = NoRequests
    /\ run = NoRun

NextCallers ==
    \/ OpenPage
    \/ \E title \in PageTitles : setTitle(title)
    \/ addOption
    \/ \E index \in 1..MaxPageOptions : removeOption(index)
    \/ \E index \in 1..MaxPageOptions : \E value \in PageValues : updateOption(index, value)
    \/ handleAnalyze
    \/ handleSave
    \/ handleStartOver
    \/ \E body \in Bodies : PostDecision(body)
    \/ \E id \in 1..(MaxStored + 1) : Reanalyze(id)

SpecCallers == InitCallers /\ [][NextCallers]_vars

(***************************************************************************)
(* POST /api/streaks for one user and one streak_type.  A timestamp is a   *)
(* UTC day and an hour of that day; the server runs in UTC, so setDate on  *)
(* the local date moves the UTC date by one day.  The streaks row is the   *)
(* one the sign-up trigger creates, or the one the first request creates.  *)
(***************************************************************************)
Hours == {9, 21}
Times == [day : 1..MaxDay, hour : Hours]
later(t, u) == t.day > u.day \/ (t.day = u.day /\ t.hour > u.hour)

\* now.toISOString().split('T')[0]
isoDate(t) == t.day
\* yesterday.setDate(yesterday.getDate() - 1)
dayBefore(t) == [day |-> t.day - 1, hour |-> t.hour]

\* INSERT INTO public.streaks (user_id, streak_type) of handle_new_user
defaultStreak ==
    [status |-> "stored", streak_type |-> "daily_decision",
     current_count |-> 0, longest_count |-> 0]

\* currentStreak.last_activity_at ? new Date(...).toISOString().split('T')[0] : null
lastActivity(row) ==
    IF "last_activity_at" \in DOMAIN row THEN isoDate(row.last_activity_at) ELSE 0

\* a request never counted as one of today
recordedToday_Never(row, now) == FALSE

\* lastActivity === today
recordedToday(row, now) ==
    "last_activity_at" \in DOMAIN row /\ lastActivity(row) = isoDate(now)

\* lastActivity === yesterdayStr || !lastActivity
continues(row, now) ==
    \/ "last_activity_at" \notin DOMAIN row
    \/ lastActivity(row) = isoDate(dayBefore(now))

newCount(row, now) == IF continues(row, now) THEN row.current_count + 1 ELSE 1

\* the longest count overwritten by the new count
longestCount_Overwritten(row, now) == newCount(row, now)

\* Math.max(currentStreak.longest_count, newCount)
longestCount(row, now) == Max(row.longest_count, newCount(row, now))

\* the object of the update, applied to the row
updatedStreak(row, now) ==
    [f \in DOMAIN row \cup {"last_activity_at"}
           \cup (IF continues(row, now) THEN {} ELSE {"broken_at"}) |->
        CASE f = "current_count" -> newCount(row, now)
          [] f = "longest_count" -> longestCount(row, now)
          [] f = "last_activity_at" -> now
          [] f = "broken_at" -> IF continues(row, now) THEN row.broken_at ELSE now
          [] OTHER -> row[f]]

\* the object of the insert
newStreak(streak_type, now) ==
    [status |-> "stored", streak_type |-> streak_type,
     current_count |-> 1, longest_count |-> 1, last_activity_at |-> now]

SignUp ==
    /\ streak = NoStreak
    /\ response = NoResponse
    /\ streak' = defaultStreak
    /\ UNCHANGED <<context, result, decisions, outcomes, metrics, page, response, insights, clock, requests, run>>

Advance(t) ==
    /\ later(t, clock)
    /\ clock' = t
    /\ UNCHANGED <<context, result, decisions, outcomes, metrics, page, response, insights, streak, requests, run>>

\* dbError: the select fails with a code other than PGRST116, or the
\* update or insert fails; either way the answer is 500 and nothing is written
PostStreak(authorized, streak_type, dbError) ==
    /\ IF ~authorized
       THEN response' = [status |-> 401] /\ UNCHANGED streak
       ELSE IF streak_type = ""
       THEN response' = [status |-> 400] /\ UNCHANGED streak
       ELSE IF dbError
       THEN response' = [status |-> 500] /\ UNCHANGED streak
       ELSE IF streak # NoStreak /\ recordedToday(streak, clock)
       THEN response' = [status |-> 200, streak |-> streak] /\ UNCHANGED streak
       ELSE IF streak # NoStreak
       THEN /\ streak' = updatedStreak(streak, clock)
            /\ response' = [status |-> 200, streak |-> streak',
                            broken |-> ~continues(streak, clock)]
       ELSE /\ streak' = newStreak(streak_type, clock)
            /\ response' = [status |-> 200, streak |-> streak']
    /\ UNCHANGED <<context, result, decisions, outcomes, metrics, page, insights, clock, requests, run>>

NextStreaks ==
    \/ SignUp
    \/ \E t \in Times : Advance(t)
    \/ \E authorized \in BOOLEAN, streak_type \in {"", "daily_decision"}, dbError \in BOOLEAN :
           PostStreak(authorized, streak_type, dbError)

SpecStreaks == Init /\ [][NextStreaks]_vars

(***************************************************************************)
(* POST /api/outcomes.  Several requests are in flight at once; each await *)
(* of a database call is one step of its request, so the existence check   *)
(* of one request and the insert of another interleave.  The outcomes      *)
(* table has no unique constraint on decision_id.                          *)
(***************************************************************************)
validOutcomeTypes == {"positive", "negative", "neutral", "mixed"}

OutcomeBodies ==
    { [decision_id |-> 1, outcome_type |-> "positive", outcome_score |-> 8],
      [decision_id |-> 1, outcome_type |-> "negative"],
      [decision_id |-> 2, outcome_type |-> "mixed"],
      [decision_id |-> 1, outcome_type |-> "great"],
      [decision_id |-> 1],
      [outcome_type |-> "neutral"] }

\* !decision_id || !outcome_type, then !validOutcomeTypes.includes(outcome_type)
invalidOutcomeBody(body) ==
    \/ "decision_id" \notin DOMAIN body
    \/ "outcome_type" \notin DOMAIN body
    \/ body.outcome_type \notin validOutcomeTypes

\* the rows .eq('decision_id', decision_id) selects
outcomesOf(id) == {i \in 1..Len(outcomes) : outcomes[i].decision_id = id}

\* .single(): data is the row when exactly one row matches, null otherwise
existingOutcome(id) == Cardinality(outcomesOf(id)) = 1

\* outcomeData: outcome_score || null, the other optional fields null
outcomeData(body) ==
    [f \in {"decision_id", "user_id", "outcome_type"}
           \cup (DOMAIN body \cap {"outcome_score"}) |->
        IF f = "user_id" THEN UserId ELSE body[f]]

answered(r, status) ==
    [requests EXCEPT ![r] = [pc |-> "done", status |-> status, body |-> @.body]]
moved(r, pc) == [requests EXCEPT ![r].pc = pc]

PostOutcome(authorized, body) ==
    /\ Len(requests) < MaxRequests
    /\ requests' = Append(requests,
           IF ~authorized THEN [pc |-> "done", status |-> 401, body |-> body]
           ELSE IF invalidOutcomeBody(body)
           THEN [pc |-> "done", status |-> 400, body |-> body]
           ELSE [pc |-> "verify", status |-> 0, body |-> body])
    /\ UNCHANGED <<context, result, decisions, outcomes, metrics, page, response, insights, streak, clock, run>>

\* select the decision of the user
VerifyDecision(r) ==
    /\ requests[r].pc = "verify"
    /\ requests' = IF \E i \in 1..Len(decisions) : decisions[i].id = requests[r].body.decision_id
                   THEN moved(r, "check") ELSE answered(r, 404)
    /\ UNCHANGED <<context, result, decisions, outcomes, metrics, page, response, insights, streak, clock, run>>

\* select the outcome of the decision
CheckExisting(r) ==
    /\ requests[r].pc = "check"
    /\ requests' = IF existingOutcome(requests[r].body.decision_id)
                   THEN answered(r, 409) ELSE moved(r, "insert")
    /\ UNCHANGED <<context, result, decisions, outcomes, metrics, page, response, insights, streak, clock, run>>

InsertOutcome(r, error) ==
    /\ requests[r].pc = "insert"
    /\ IF error
       THEN requests' = answered(r, 500) /\ UNCHANGED outcomes
       ELSE /\ outcomes' = Append(outcomes, outcomeData(requests[r].body))
            /\ requests' = moved(r, "complete")
    /\ UNCHANGED <<context, result, decisions, metrics, page, response, insights, streak, clock, run>>

\* update({ is_completed: true, ... }), whose result is not looked at
CompleteDecision(r) ==
    /\ requests[r].pc = "complete"
    /\ decisions' = [i \in 1..Len(decisions) |->
                        IF decisions[i].id = requests[r].body.decision_id
                        THEN [decisions[i] EXCEPT !.is_completed = TRUE]
                        ELSE decisions[i]]
    /\ requests' = answered(r, 201)
    /\ UNCHANGED <<context, result, outcomes, metrics, page, response, insights, streak, clock, run>>

InitOutcomes ==
    /\ context = [title |-> "", category |-> "general", urgency |-> "medium",
                  options |-> <<>>]
    /\ result = NoResult
    /\ decisions = <<[id |-> 1, category |-> "general", urgency |-> "medium",
                      options |-> TwoOptions, is_completed |-> FALSE,
                      created_at |-> "2026-03-02T09:15:00+00:00"]>>
    /\ outcomes = <<>>
    /\ metrics = NoMetrics
    /\ page = NoPage
    /\ response = NoResponse
    /\ insights = NoInsights
    /\ streak = NoStreak
    /\ clock = StartOfTime
    /\ requests = NoRequests
    /\ run = NoRun

NextOutcomes ==
    \/ \E authorized \in BOOLEAN, body \in OutcomeBodies : PostOutcome(authorized, body)
    \/ \E r \in 1..Len(requests) : VerifyDecision(r)
    \/ \E r \in 1..Len(requests) : CheckExisting(r)
    \/ \E r \in 1..Len(requests), error \in BOOLEAN : InsertOutcome(r, error)
    \/ \E r \in 1..Len(requests) : CompleteDecision(r)

SpecOutcomes == InitOutcomes /\ [][NextOutcomes]_vars

(***************************************************************************)
(* processWeeklyInsights (supabase/functions/weekly-insights).  The run    *)
(* selects the user_id of every decision row of the week, then handles the *)
(* distinct users one iteration at a time.  What the database answers for  *)
(* a user is an input of the iteration.  Of an insight the user, the type, *)
(* the title and the priority are kept.                                    *)
(***************************************************************************)
UserIds == {"user-1", "user-2", "user-3"}

RECURSIVE SeqsUpTo(_, _)
SeqsUpTo(S, n) ==
    IF n = 0 THEN {<<>>}
    ELSE SeqsUpTo(S, n - 1)
         \cup {Append(q, x) : q \in {r \in SeqsUpTo(S, n - 1) : Len(r) = n - 1}, x \in S}

\* [...new Set(activeUsers?.map(u => u.user_id) || [])]
RECURSIVE uniqueFrom(_, _)
uniqueFrom(ids, seen) ==
    IF ids = <<>> THEN <<>>
    ELSE IF Head(ids) \in seen THEN uniqueFrom(Tail(ids), seen)
    ELSE <<Head(ids)>> \o uniqueFrom(Tail(ids), seen \cup {Head(ids)})

\* the decisions of the week of one user, as the select may return them
WeekLists ==
    { <<>>,
      <<[id |-> 1, category |-> "health", urgency |-> "low", options |-> TwoOptions,
         chosen_option |-> [id |-> "b"], is_completed |-> TRUE,
         created_at |-> "2026-03-03T18:40:00+00:00"]>>,
      <<[id |-> 1, category |-> "work", urgency |-> "critical", options |-> TwoOptions,
         chosen_option |-> [id |-> "a"], confidence_score |-> Frac(9, 10),
         time_to_decide |-> 900, is_completed |-> FALSE,
         created_at |-> "2026-03-02T09:15:00+00:00"]>>,
      <<[id |-> 1, category |-> "work", urgency |-> "high", options |-> TwoOptions,
         chosen_option |-> [id |-> "a"], is_completed |-> TRUE,
         created_at |-> "2026-03-02T22:05:00+00:00"],
        [id |-> 2, category |-> "health", urgency |-> "low", options |-> <<>>,
         time_to_decide |-> 120, is_completed |-> TRUE,
         created_at |-> "2026-03-03T18:40:00+00:00"]>> }

\* analyzeBiases of the function: three keys
weeklyBiasKeys == <<"first_option_bias", "overconfidence_bias", "analysis_paralysis">>
weeklyBiases(ds) ==
    [first_option_bias   |-> Frac(firstOptionCount(ds), biasTotal(ds)),
     overconfidence_bias |-> Frac(highConfidenceCount(ds), biasTotal(ds)),
     analysis_paralysis  |-> Frac(longDecisionCount(ds), biasTotal(ds))]

RECURSIVE weeklyBiasInsightsFrom(_, _, _)
weeklyBiasInsightsFrom(userId, ds, i) ==
    IF i > Len(weeklyBiasKeys) THEN <<>>
    ELSE (IF FracGT(weeklyBiases(ds)[weeklyBiasKeys[i]], Frac(4, 10))
          THEN <<[user_id |-> userId, insight_type |-> "pattern",
                  insight_title |-> titleCaseFrom(weeklyBiasKeys[i], 1),
                  priority |-> 7]>>
          ELSE <<>>)
         \o weeklyBiasInsightsFrom(userId, ds, i + 1)

\* generateInsightsFromMetrics of the function: the summary, the fatigue
\* alert, the bias alerts
weeklyInsights(userId, ds) ==
    <<[user_id |-> userId, insight_type |-> "weekly",
       insight_title |-> "Weekly Decision Summary", priority |-> 5]>>
    \o (IF FracGE(calculateFatigueScore(ds), Frac(7, 1))
        THEN <<[user_id |-> userId, insight_type |-> "pattern",
                insight_title |-> "High Decision Fatigue", priority |-> 9]>>
        ELSE <<>>)
    \o weeklyBiasInsightsFrom(userId, ds, 1)

\* the insights of an iteration that reaches the insert
insightsOf(userId, answer) ==
    IF answer.kind = "decisions" /\ Len(answer.decisions) > 0
    THEN weeklyInsights(userId, answer.decisions) ELSE <<>>

\* what the database answers in one iteration: the select fails, a call
\* throws, or the select returns rows and the insert succeeds or fails
UserAnswers ==
    {[kind |-> "decisionsError"], [kind |-> "thrown"]}
    \cup [kind : {"decisions"}, decisions : WeekLists, insertError : BOOLEAN]

\* the insights of a failed insert counted as well
insertedCount_Attempted(userId, answer) == Len(insightsOf(userId, answer))

\* totalInsightsGenerated += insights.length, in the else of insertError
insertedCount(userId, answer) ==
    IF answer.kind = "decisions" /\ ~answer.insertError
    THEN Len(insightsOf(userId, answer)) ELSE 0

\* the select of the active users; usersError throws out of the run
StartRun(activeUsers, usersError) ==
    /\ run.status = "idle"
    /\ run' = IF usersError THEN [status |-> "failed"]
              ELSE [status        |-> "running",
                    activeUsers   |-> activeUsers,
                    uniqueUserIds |-> uniqueFrom(activeUsers, {}),
                    index         |-> 1,
                    totalInsightsGenerated |-> 0,
                    stored        |-> <<>>,
                    log           |-> <<>>]
    /\ UNCHANGED <<context, result, decisions, outcomes, metrics, page, response, insights, streak, clock, requests>>

\* one iteration of for (const userId of uniqueUserIds)
ProcessUser(answer) ==
    /\ run.status = "running"
    /\ run.index <= Len(run.uniqueUserIds)
    /\ LET userId == run.uniqueUserIds[run.index]
           generated == insightsOf(userId, answer)
       IN  run' = [run EXCEPT
                      !.index = @ + 1,
                      !.totalInsightsGenerated = @ + insertedCount(userId, answer),
                      !.stored = IF answer.kind = "decisions" /\ ~answer.insertError
                                 THEN @ \o generated ELSE @,
                      !.log = Append(@, [user_id |-> userId, answer |-> answer])]
    /\ UNCHANGED <<context, result, decisions, outcomes, metrics, page, response, insights, streak, clock, requests>>

\* return { success: true, usersProcessed, insightsGenerated }
FinishRun ==
    /\ run.status = "running"
    /\ run.index > Len(run.uniqueUserIds)
    /\ run' = [run EXCEPT !.status = "done"]
    /\ response' = [status |-> 200, success |-> TRUE,
                    usersProcessed |-> Len(run.uniqueUserIds),
                    insightsGenerated |-> run.totalInsightsGenerated]
    /\ UNCHANGED <<context, result, decisions, outcomes, metrics, page, insights, streak, clock, requests>>

NextWeekly ==
    \/ \E activeUsers \in SeqsUpTo(UserIds, MaxActiveRows), usersError \in BOOLEAN :
           StartRun(activeUsers, usersError)
    \/ \E answer \in UserAnswers : ProcessUser(answer)
    \/ FinishRun

SpecWeekly == Init /\ [][NextWeekly]_vars

(***************************************************************************)
(* Properties of analyzeDecision.                                          *)
(***************************************************************************)
\* C1: for every context with at least 2 options every entry of the returned
\* rankings has a score between 20 and 95 inclusive, whether or not the
\* normalizer reassigned the scores.
C1_ScoreBounds ==
    (result.status = "ok" /\ Len(context.options) >= 2) =>
        \A i \in 1..Len(result.rankings) :
            /\ result.rankings[i].score \in Int
            /\ 20 <= result.rankings[i].score
            /\ result.rankings[i].score <= 95

\* a context of six near-tied options was analysed: the normalizer reassigned
\* the scores and the last one sits on its floor of 25
C1_Witness ==
    /\ result.status = "ok"
    /\ Len(context.options) = 6
    /\ needsSpread(scoredOptions(context))
    /\ result.rankings[6].score = 25

\* C2: for N >= 2 options the result holds exactly N rankings, one per input
\* option, and their ranks are exactly 1..N without duplicate or gap.
C2_RankPermutation ==
    (result.status = "ok" /\ Len(context.options) >= 2) =>
        /\ Len(result.rankings) = Len(context.options)
        /\ {result.rankings[i].rank : i \in 1..Len(result.rankings)}
               = 1..Len(context.options)
        /\ {result.rankings[i].pos : i \in 1..Len(result.rankings)}
               = 0..(Len(context.options) - 1)
        /\ \A i \in 1..Len(result.rankings) :
               result.rankings[i].option_id
                   = context.options[result.rankings[i].pos + 1].id

\* an analysed context in which two options ended with the same final score
C2_Witness ==
    /\ result.status = "ok"
    /\ Len(context.options) >= 2
    /\ \E i, j \in 1..Len(result.rankings) :
           i # j /\ result.rankings[i].score = result.rankings[j].score

\* C3: with at least 2 options, pairwise distinct ids and non-empty texts,
\* recommended_action is the text of the input option ranked first.
C3_RecommendationConsistency ==
    (/\ result.status = "ok"
     /\ Len(context.options) >= 2
     /\ \A i, j \in 1..Len(context.options) :
            i # j => context.options[i].id # context.options[j].id
     /\ \A i \in 1..Len(context.options) : context.options[i].text # "")
    => \A i \in 1..Len(result.rankings) :
           result.rankings[i].rank = 1 =>
               result.recommended_action
                   = context.options[result.rankings[i].pos + 1].text

\* an analysed context with distinct ids whose best option is not the first
\* one listed and differs from it in text
C3_Witness ==
    /\ result.status = "ok"
    /\ Len(context.options) >= 2
    /\ \A i, j \in 1..Len(context.options) :
           i # j => context.options[i].id # context.options[j].id
    /\ result.rankings[1].pos # 0
    /\ context.options[result.rankings[1].pos + 1].text # context.options[1].text

\* C4: with at least 2 options confidence_score is
\* min(0.95, 0.5 + 0.4 * (max final score - min final score) / 100), a value
\* of the closed interval [0.5, 0.95].
C4_ConfidenceBounds ==
    (result.status = "ok" /\ Len(context.options) >= 2) =>
        LET finals == {result.rankings[i].score : i \in 1..Len(result.rankings)}
            hi == CHOOSE s \in finals : \A t \in finals : t <= s
            lo == CHOOSE s \in finals : \A t \in finals : s <= t
            c == result.confidence_score
        IN  /\ c.den > 0
            /\ 1000 * c.num = Min(950, 500 + 4 * (hi - lo)) * c.den
            /\ 2 * c.num >= c.den
            /\ 100 * c.num <= 95 * c.den

\* an analysed context whose final scores are more than 50 apart
C4_Witness ==
    /\ result.status = "ok"
    /\ Len(context.options) >= 2
    /\ \E i, j \in 1..Len(result.rankings) :
           result.rankings[i].score - result.rankings[j].score > 50

\* C5: potential_biases is never empty; when none of the first-option,
\* too-many-options, critical-urgency, positive-framing and negative-framing
\* triggers fires it is exactly the single default message.
C5_BiasNonEmpty ==
    result.status = "ok" =>
        LET n == Len(context.options)
            pros == [i \in 1..n |-> IF "pros" \in DOMAIN context.options[i]
                                    THEN Len(context.options[i].pros) ELSE 0]
            cons == [i \in 1..n |-> IF "cons" \in DOMAIN context.options[i]
                                    THEN Len(context.options[i].cons) ELSE 0]
            noTrigger ==
                /\ ~(pros[1] > cons[1] + 2)
                /\ ~(n > 5)
                /\ context.urgency # "critical"
                /\ ~(SeqSum(pros) > 2 * SeqSum(cons))
                /\ ~(SeqSum(cons) > 2 * SeqSum(pros))
        IN  /\ Len(result.potential_biases) >= 1
            /\ noTrigger => result.potential_biases = <<DefaultBias>>

\* an analysed context with pros and cons in which no trigger fired
C5_Witness ==
    /\ result.status = "ok"
    /\ Len(context.options) >= 2
    /\ details(context) >= 2
    /\ result.potential_biases = <<DefaultBias>>

\* C8: for the context "Finish project or sleep" (work, high urgency) with the
\* options "Finish the project" and "Go to sleep", option 1 scores strictly
\* higher, is ranked first and recommended, has risk low while option 2 has
\* risk high, and both have the short-term horizon.
C8_FinishOrSleep ==
    (/\ result.status = "ok"
     /\ context = [title |-> "Finish project or sleep", category |-> "work",
                   urgency |-> "high",
                   options |-> <<[id |-> "1", text |-> "Finish the project"],
                                 [id |-> "2", text |-> "Go to sleep"]>>])
    => /\ Len(result.rankings) = 2
       /\ result.rankings[1].option_id = "1"
       /\ result.rankings[1].rank = 1
       /\ result.rankings[2].option_id = "2"
       /\ result.rankings[1].score > result.rankings[2].score
       /\ result.recommended_action = "Finish the project"
       /\ result.rankings[1].risk_level = "low"
       /\ result.rankings[2].risk_level = "high"
       /\ result.rankings[1].time_horizon = "short-term"
       /\ result.rankings[2].time_horizon = "short-term"

\* the example context was analysed
C8_Witness ==
    /\ result.status = "ok"
    /\ context.title = "Finish project or sleep"
    /\ context.options = <<[id |-> "1", text |-> "Finish the project"],
                           [id |-> "2", text |-> "Go to sleep"]>>
    /\ result.rankings[1].score = 93
    /\ result.rankings[2].score = 42

\* C9: with exactly two options the final scores differ by at least 15 and
\* the ranks are 1 and 2 without a tie, also when the raw scores were less
\* than 15 apart.
C9_TwoOptionsSeparated ==
    (result.status = "ok" /\ Len(context.options) = 2) =>
        /\ Len(result.rankings) = 2
        /\ result.rankings[1].rank = 1
        /\ result.rankings[2].rank = 2
        /\ result.rankings[1].score - result.rankings[2].score >= 15

\* two options with the same text and neither pros nor cons were analysed,
\* their raw scores being one point apart
C9_Witness ==
    /\ result.status = "ok"
    /\ Len(context.options) = 2
    /\ context.options[1].text = context.options[2].text
    /\ details(context) = 0
    /\ rawScore(context, context.options[1], 0)
           - rawScore(context, context.options[2], 1) = 1
    /\ result.rankings[1].score - result.rankings[2].score >= 15

(***************************************************************************)
(* Properties of the metric functions.                                     *)
(***************************************************************************)
\* C7: on empty history the metric functions return zero instead of failing:
\* calculateSuccessRate([]) = 0 and calculateFatigueScore([]) = 0.
C7_EmptyHistoryZero ==
    metrics.status = "ok" =>
        /\ outcomes = <<>> =>
               (metrics.successRate.den # 0 /\ metrics.successRate.num = 0)
        /\ decisions = <<>> =>
               (metrics.fatigueScore.den # 0 /\ metrics.fatigueScore.num = 0)

\* the metrics were computed for a user without decisions and outcomes
C7_Witness ==
    /\ metrics.status = "ok"
    /\ decisions = <<>>
    /\ outcomes = <<>>
    /\ metrics.totalDecisions = 0

\* C10: first_option_bias is the number of decisions that have a non-empty
\* options list and a chosen_option with the id of the first listed option,
\* divided by the number of all decisions supplied; 10 decisions with the
\* first option chosen in 5 of them yield exactly 0.5.
C10_FirstOptionBias ==
    (metrics.status = "ok" /\ Len(decisions) > 0) =>
        LET firstChosen ==
                {i \in 1..Len(decisions) :
                    /\ "options" \in DOMAIN decisions[i]
                    /\ decisions[i].options # <<>>
                    /\ "chosen_option" \in DOMAIN decisions[i]
                    /\ decisions[i].chosen_option.id = decisions[i].options[1].id}
            bias == metrics.biasAnalysis.first_option_bias
        IN  /\ bias.den # 0
            /\ bias.num * Len(decisions) = Cardinality(firstChosen) * bias.den
            /\ (Len(decisions) = 10 /\ Cardinality(firstChosen) = 5)
                   => bias = [num |-> 1, den |-> 2]

\* ten decisions were analysed, the first option chosen in five of them and
\* at least one of the others without options or choice
C10_Witness ==
    /\ metrics.status = "ok"
    /\ Len(decisions) = 10
    /\ Cardinality({i \in 1..10 : "chosen_option" \in DOMAIN decisions[i]
                        /\ decisions[i].chosen_option.id = "a"}) = 5
    /\ \E i \in 1..10 : "chosen_option" \notin DOMAIN decisions[i]
    /\ metrics.biasAnalysis.first_option_bias = [num |-> 1, den |-> 2]

\* five decisions of one calendar day, all critical, 900 seconds to decide
\* and not completed
FiveCriticalOfOneDay ==
    /\ Len(decisions) = 5
    /\ Cardinality(activeDays(decisions)) = 1
    /\ \A i \in 1..5 :
           /\ decisions[i].urgency = "critical"
           /\ "time_to_decide" \in DOMAIN decisions[i]
           /\ decisions[i].time_to_decide = 900
           /\ ~decisions[i].is_completed

\* C11 as stated: for five critical, slow, incomplete decisions of one day
\* each of the four components hits or approaches its cap of 2.5 (is at
\* least 2) and the total does not exceed 10.
C11_FatigueAllNearCap ==
    (metrics.status = "ok" /\ FiveCriticalOfOneDay) =>
        /\ FracGE(dailyComponent(decisions), Frac(2, 1))
        /\ FracGE(urgencyComponent(decisions), Frac(2, 1))
        /\ FracGE(timeComponent(decisions), Frac(2, 1))
        /\ FracGE(incompleteComponent(decisions), Frac(2, 1))
        /\ FracGE(Frac(10, 1), metrics.fatigueScore)

\* C11 amended: for five critical, slow, incomplete decisions of one day the
\* urgency, time-to-decide and incompletion components are each exactly 2.5,
\* the decisions-per-active-day component is 5/5 = 1, and the total is 8.5.
C11_FatigueExample ==
    (metrics.status = "ok" /\ FiveCriticalOfOneDay) =>
        /\ dailyComponent(decisions) = Frac(1, 1)
        /\ urgencyComponent(decisions) = Frac(5, 2)
        /\ timeComponent(decisions) = Frac(5, 2)
        /\ incompleteComponent(decisions) = Frac(5, 2)
        /\ metrics.fatigueScore = Frac(17, 2)

\* the metrics were computed for the five decisions of the example
C11_Witness ==
    /\ metrics.status = "ok"
    /\ FiveCriticalOfOneDay
    /\ metrics.totalDecisions = 5
    /\ metrics.completedDecisions = 0

(***************************************************************************)
(* Properties of the callers.                                              *)
(***************************************************************************)
\* C12: no caller invokes analyzeDecision with fewer than 2 options: the
\* context of every invocation, by POST /api/decisions, by the
\* create-decision page or by POST /api/decisions/[id]/analyze, has at least
\* 2 options.
C12_AtLeastTwoOptions ==
    result # NoResult => Len(context.options) >= 2

(***************************************************************************)
(* Properties of the ranking order.                                        *)
(***************************************************************************)
\* C13: the returned rankings are sorted by rank ascending, the ranking at
\* position i (counted from 1) having rank i, and the final scores are
\* non-increasing along the list, so a better rank never has a lower score
\* and the rank-1 option has the maximum final score.
C13_SortedByRank ==
    result.status = "ok" =>
        /\ \A i \in 1..Len(result.rankings) : result.rankings[i].rank = i
        /\ \A i, j \in 1..Len(result.rankings) :
               result.rankings[i].rank < result.rankings[j].rank
                   => result.rankings[i].score >= result.rankings[j].score
        /\ \A i \in 1..Len(result.rankings) :
               result.rankings[1].score >= result.rankings[i].score

\* an analysed context of at least 3 options whose scores were not
\* reassigned and whose best option is the last one listed
C13_Witness ==
    /\ result.status = "ok"
    /\ Len(context.options) >= 3
    /\ ~needsSpread(scoredOptions(context))
    /\ result.rankings[1].pos = Len(context.options) - 1
    /\ result.rankings[1].score > result.rankings[2].score

\* C14: ties are broken by input order: of two options that end with the same
\* final score, the one listed earlier in the input has the smaller rank,
\* whether or not the normalizer reassigned the scores.
C14_TiesByInputOrder ==
    result.status = "ok" =>
        \A i, j \in 1..Len(result.rankings) :
            (/\ result.rankings[i].score = result.rankings[j].score
             /\ result.rankings[i].pos < result.rankings[j].pos)
            => result.rankings[i].rank < result.rankings[j].rank

\* C16: whenever the normalizer reassigns the scores, the reassigned final
\* scores are pairwise distinct and options adjacent in rank differ by at
\* least 15.
C16_ManufacturedSeparation ==
    (result.status = "ok" /\ needsSpread(scoredOptions(context))) =>
        /\ \A i, j \in 1..Len(result.rankings) :
               i # j => result.rankings[i].score # result.rankings[j].score
        /\ \A i \in 1..(Len(result.rankings) - 1) :
               result.rankings[i].score - result.rankings[i + 1].score >= 15

\* C15: the normalizer reassigns the scores exactly when there are at least
\* 2 options and max(raw) - min(raw) < 15; the option at zero-based position
\* p of the stable descending sort by raw score then gets
\* max(25, min(95, 85 - 15 p)); in every other case each final score is the
\* clamped raw score of its option.
C15_NormalizerTrigger ==
    result.status = "ok" =>
        LET n == Len(context.options)
            raw == [i \in 1..n |-> rawScore(context, context.options[i], i - 1)]
            hi == CHOOSE s \in {raw[i] : i \in 1..n} : \A i \in 1..n : raw[i] <= s
            lo == CHOOSE s \in {raw[i] : i \in 1..n} : \A i \in 1..n : s <= raw[i]
            p(i) == Cardinality({j \in 1..n :
                        raw[j] > raw[i] \/ (raw[j] = raw[i] /\ j < i)})
        IN  \A k \in 1..Len(result.rankings) :
                LET i == result.rankings[k].pos + 1 IN
                result.rankings[k].score =
                    IF n >= 2 /\ hi - lo < 15
                    THEN Max(25, Min(95, 85 - 15 * p(i)))
                    ELSE raw[i]

\* an analysed context whose raw scores are exactly 15 apart: the scores
\* were not reassigned
C15_Witness ==
    /\ result.status = "ok"
    /\ Len(context.options) >= 2
    /\ SeqMax(scoresOf(scoredOptions(context)))
           - SeqMin(scoresOf(scoredOptions(context))) = 15
    /\ \A k \in 1..Len(result.rankings) :
           result.rankings[k].score
               = rawScore(context, context.options[result.rankings[k].pos + 1],
                          result.rankings[k].pos)

(***************************************************************************)
(* Properties of the scorer.                                               *)
(***************************************************************************)
\* C18: risk_level is "high" iff the option is avoidance and the decision is
\* work-related, also when the option is productive as well; otherwise "low"
\* iff the option is productive; otherwise "medium".  Scoring, clamping,
\* normalization and ranking do not change it.
C18_RiskLevel ==
    result.status = "ok" =>
        \A k \in 1..Len(result.rankings) :
            LET option == context.options[result.rankings[k].pos + 1]
                text == trim(toLowerCase(option.text))
                work == SomeIncluded(workWords,
                            toLowerCase(context.title) \o " "
                            \o toLowerCase(descriptionOf(context)))
                avoid == SomeIncluded(avoidanceWords, text)
                productive == SomeIncluded(productiveWords, text)
            IN  /\ result.rankings[k].risk_level = "high" <=> (avoid /\ work)
                /\ result.rankings[k].risk_level = "low"
                       <=> (productive /\ ~(avoid /\ work))
                /\ result.rankings[k].risk_level = "medium"
                       <=> (~productive /\ ~(avoid /\ work))

\* an analysed work decision with reassigned scores in which an option that
\* is both avoidance and productive is rated high, not ranked first
C18_Witness ==
    /\ result.status = "ok"
    /\ isWorkDecision(context)
    /\ needsSpread(scoredOptions(context))
    /\ \E k \in 2..Len(result.rankings) :
           /\ context.options[result.rankings[k].pos + 1].text = "Play and study"
           /\ result.rankings[k].risk_level = "high"

\* C17: the raw score of the option at zero-based index i is
\* clamp(50 + W + 10 T + 5 P - 3 Ng + 10 |pros| - 7 |cons| + S + max(0, 3 - i),
\* 20, 95) with W = -25 for avoidance plus 15 for productive in a work-related
\* decision, T the title words longer than 3 characters found in the option
\* text, P and Ng the positive and negative words found in it, and S = 5 iff
\* the text has 2 to 10 words; it is computed from that option alone, and it
\* is the final score when the scores are not reassigned.
C17_RawScoreFormula ==
    result.status = "ok" =>
        \A k \in 1..Len(result.rankings) :
            LET i == result.rankings[k].pos
                option == context.options[i + 1]
                W == IF isWorkDecision(context)
                     THEN (IF isAvoidance(option) THEN -25 ELSE 0)
                          + (IF isProductive(option) THEN 15 ELSE 0)
                     ELSE 0
                T == titleMatchTable[context.title][option.text]
                P == positiveTable[option.text]
                Ng == negativeTable[option.text]
                pros == IF "pros" \in DOMAIN option THEN Len(option.pros) ELSE 0
                cons == IF "cons" \in DOMAIN option THEN Len(option.cons) ELSE 0
                S == IF wordCountTable[option.text] \in 2..10 THEN 5 ELSE 0
                bonus == IF i < 3 THEN 3 - i ELSE 0
                sum == 50 + W + 10 * T + 5 * P - 3 * Ng + 10 * pros - 7 * cons
                       + S + bonus
                expected == IF sum < 20 THEN 20 ELSE IF sum > 95 THEN 95 ELSE sum
            IN  /\ rawScore(context, option, i) = expected
                /\ ~needsSpread(scoredOptions(context))
                       => result.rankings[k].score = expected

\* an analysed work decision whose scores were not reassigned, with an
\* avoidance option that carries a pro and a con
C17_Witness ==
    /\ result.status = "ok"
    /\ isWorkDecision(context)
    /\ ~needsSpread(scoredOptions(context))
    /\ \E k \in 1..Len(result.rankings) :
           LET option == context.options[result.rankings[k].pos + 1] IN
           /\ isAvoidance(option)
           /\ prosCount(option) >= 1
           /\ consCount(option) >= 1
           /\ result.rankings[k].score \in 21..94

(***************************************************************************)
(* Properties of the bias detection.                                       *)
(***************************************************************************)
\* C19: each trigger of detectBiases decides alone whether its message is
\* present; the messages come in the order first-option-favored,
\* too-many-choices, time-pressure, framing; the positive and the negative
\* framing warnings never both appear; the default message appears iff no
\* trigger fired.
C19_BiasOrder ==
    result.status = "ok" =>
        LET b == result.potential_biases
            has(tag) == \E i \in 1..Len(b) : b[i] = tag
            n == Len(context.options)
            prosOf(i) == IF "pros" \in DOMAIN context.options[i]
                         THEN Len(context.options[i].pros) ELSE 0
            consOf(i) == IF "cons" \in DOMAIN context.options[i]
                         THEN Len(context.options[i].cons) ELSE 0
            allPros == SeqSum([i \in 1..n |-> prosOf(i)])
            allCons == SeqSum([i \in 1..n |-> consOf(i)])
            order == [tag \in {"first_option_favored", "too_many_choices",
                               "time_pressure", "positive_framing",
                               "negative_framing", DefaultBias} |->
                         CASE tag = "first_option_favored" -> 1
                           [] tag = "too_many_choices" -> 2
                           [] tag = "time_pressure" -> 3
                           [] tag = "positive_framing" -> 4
                           [] tag = "negative_framing" -> 4
                           [] OTHER -> 5]
        IN  /\ has("first_option_favored") <=> prosOf(1) > consOf(1) + 2
            /\ has("too_many_choices") <=> n > 5
            /\ has("time_pressure") <=> context.urgency = "critical"
            /\ has("positive_framing") <=> allPros > 2 * allCons
            /\ has("negative_framing") <=> allCons > 2 * allPros
            /\ \A i, j \in 1..Len(b) : i < j => order[b[i]] < order[b[j]]
            /\ ~(has("positive_framing") /\ has("negative_framing"))
            /\ has(DefaultBias) <=>
                   ~(\/ prosOf(1) > consOf(1) + 2
                     \/ n > 5
                     \/ context.urgency = "critical"
                     \/ allPros > 2 * allCons
                     \/ allCons > 2 * allPros)
            /\ has(DefaultBias) => Len(b) = 1

\* an analysed context in which the four kinds of warning appear together
C19_Witness ==
    /\ result.status = "ok"
    /\ result.potential_biases
           = <<"first_option_favored", "too_many_choices", "time_pressure",
               "positive_framing">>

(***************************************************************************)
(* Properties of the fatigue score over long histories.                    *)
(***************************************************************************)
\* C20: for a non-empty list of decisions the fatigue score is a number
\* between 0 and 10, and each of the four components (decisions per active
\* day / 5, urgency ratio * 2.5, average time to decide / 300, incomplete
\* ratio * 2.5) is at most 2.5.
C20_FatigueBounded ==
    (metrics.status = "ok" /\ Len(decisions) > 0) =>
        /\ ~IsNaN(metrics.fatigueScore)
        /\ FracGE(metrics.fatigueScore, Frac(0, 1))
        /\ FracGE(Frac(10, 1), metrics.fatigueScore)
        /\ \A c \in {dailyComponent(decisions), urgencyComponent(decisions),
                     timeComponent(decisions), incompleteComponent(decisions)} :
               /\ ~IsNaN(c)
               /\ FracGE(c, Frac(0, 1))
               /\ FracGE(Frac(5, 2), c)

\* more than 12.5 decisions on the only active day: the daily component
\* sits on its cap, and so does the time component
C20_Witness ==
    /\ metrics.status = "ok"
    /\ Len(decisions) = MaxDayDecisions
    /\ Cardinality(activeDays(decisions)) = 1
    /\ FracGT(FracMul(avgDailyDecisions(decisions), Frac(1, 5)), Frac(5, 2))
    /\ dailyComponent(decisions) = Frac(5, 2)
    /\ timeComponent(decisions) = Frac(5, 2)
    /\ metrics.fatigueScore = Frac(10, 1)

(***************************************************************************)
(* Properties of the insight generation.  The counts of the formulas are   *)
(* taken from the stored rows, not from the metrics.                       *)
(***************************************************************************)
weekGenerated == insights.status = "ok" /\ Len(decisions) > 0
hasInsight(title) ==
    \E i \in 1..Len(insights.returned) : insights.returned[i].insight_title = title
positiveOutcomes ==
    Cardinality({i \in 1..Len(outcomes) :
        \/ outcomes[i].outcome_type = "positive"
        \/ ("outcome_score" \in DOMAIN outcomes[i] /\ outcomes[i].outcome_score >= 7)})

\* C21: the 'Strong Decision Performance' insight is emitted iff the
\* success rate is at least 0.7, the 'Decision Quality Alert' insight, with
\* exactly two action items, iff it is below 0.5; never both, and neither
\* for a rate from 0.5 up to 0.7.
C21_SuccessThresholds ==
    weekGenerated =>
        LET n == Len(outcomes)
            p == positiveOutcomes
        IN  /\ hasInsight("Strong Decision Performance") <=> (n > 0 /\ 10 * p >= 7 * n)
            /\ hasInsight("Decision Quality Alert") <=> (n = 0 \/ 2 * p < n)
            /\ ~(hasInsight("Strong Decision Performance")
                 /\ hasInsight("Decision Quality Alert"))
            /\ \A i \in 1..Len(insights.returned) :
                   insights.returned[i].insight_title = "Decision Quality Alert"
                   => /\ "action_items" \in DOMAIN insights.returned[i]
                      /\ Len(insights.returned[i].action_items) = 2

\* an alert for a success rate above 0 and below 0.5
C21_Witness ==
    /\ weekGenerated
    /\ positiveOutcomes > 0
    /\ hasInsight("Decision Quality Alert")

categoryNames == {categoryOf(decisions[i]) : i \in 1..Len(decisions)}
categoryTotal(c) == Cardinality({i \in 1..Len(decisions) : categoryOf(decisions[i]) = c})
categoryPositive(c) ==
    Cardinality({i \in 1..Len(decisions) :
        /\ categoryOf(decisions[i]) = c
        /\ hasPositiveOutcome(decisions[i], outcomes)})

\* C22: whenever some category has at least 3 decisions and a non-zero
\* rate, a 'category' insight is emitted that names the category with the
\* highest rate among the categories with at least 3 decisions, whatever
\* the rate of the categories with fewer decisions.
C22_BestSampledCategory ==
    (weekGenerated /\ \E c \in categoryNames : categoryTotal(c) >= 3 /\ categoryPositive(c) > 0)
    => \E i \in 1..Len(insights.returned) :
           /\ insights.returned[i].insight_type = "category"
           /\ LET best == insights.returned[i].category IN
              /\ best \in categoryNames
              /\ categoryTotal(best) >= 3
              /\ \A c \in categoryNames :
                     categoryTotal(c) >= 3
                     => categoryPositive(best) * categoryTotal(c)
                            >= categoryPositive(c) * categoryTotal(best)

\* C23 as stated: when no category has a positive outcome the fold leaves
\* the sentinel for one of the zero-rate categories.
C23_ZeroRatePick ==
    (weekGenerated /\ \A c \in categoryNames : categoryPositive(c) = 0)
    => bestCategory(userMetrics(decisions, outcomes)).category \in categoryNames

\* C23: when no category has a positive outcome the fold ends on the
\* sentinel ('none', {total: 0, positive: 0}) and no category-strength
\* insight is emitted, however many decisions the categories have.
C23_SentinelKept ==
    (weekGenerated /\ \A c \in categoryNames : categoryPositive(c) = 0)
    => /\ bestCategory(userMetrics(decisions, outcomes)) = NoCategory
       /\ \A i \in 1..Len(insights.returned) :
              insights.returned[i].insight_type # "category"

\* a category with 3 decisions, all with an outcome, none of them positive
C23_Witness ==
    /\ weekGenerated
    /\ \A c \in categoryNames : categoryPositive(c) = 0
    /\ \E c \in categoryNames : categoryTotal(c) >= 3
    /\ Len(outcomes) = Len(decisions)

(***************************************************************************)
(* Properties of the streaks route.                                        *)
(***************************************************************************)
recorded == streak # NoStreak /\ "last_activity_at" \in DOMAIN streak

\* C27: once a request has recorded an activity the stored streak has
\* longest_count >= current_count >= 1, and no step lowers longest_count.
C27_LongestBoundsCurrent ==
    /\ [](recorded => (streak.longest_count >= streak.current_count
                       /\ streak.current_count >= 1))
    /\ [][(streak # NoStreak /\ streak' # NoStreak)
          => streak'.longest_count >= streak.longest_count]_vars

\* a streak broken after a longer run
C27_Witness ==
    /\ recorded
    /\ streak.current_count = 1
    /\ streak.longest_count > 1
    /\ "broken_at" \in DOMAIN streak

\* C28: a request for a row whose last activity is on the current UTC date
\* writes nothing; one whose last activity is on the previous UTC date, or
\* is null, raises current_count by exactly 1 when it writes; any other
\* request that writes sets current_count to 1 and broken_at to now.
C28_OncePerDay ==
    [][(streak # NoStreak /\ clock' = clock)
       => IF "last_activity_at" \in DOMAIN streak /\ streak.last_activity_at.day = clock.day
          THEN streak' = streak
          ELSE IF \/ "last_activity_at" \notin DOMAIN streak
                  \/ streak.last_activity_at.day = clock.day - 1
          THEN \/ streak' = streak
               \/ /\ streak'.current_count = streak.current_count + 1
                  /\ streak'.last_activity_at = clock
                  /\ ("broken_at" \in DOMAIN streak') = ("broken_at" \in DOMAIN streak)
                  /\ "broken_at" \in DOMAIN streak => streak'.broken_at = streak.broken_at
          ELSE \/ streak' = streak
               \/ /\ streak'.current_count = 1
                  /\ streak'.last_activity_at = clock
                  /\ "broken_at" \in DOMAIN streak'
                  /\ streak'.broken_at = clock]_vars

\* a second request of the day, answered with the row the first one wrote
\* on the day after the previous activity
C28_Witness ==
    /\ recorded
    /\ streak.last_activity_at.day = clock.day
    /\ later(clock, streak.last_activity_at)
    /\ streak.current_count > 1
    /\ response.status = 200
    /\ "broken" \notin DOMAIN response
    /\ response.streak = streak

(***************************************************************************)
(* Properties of the outcomes route.                                       *)
(***************************************************************************)
\* C29: at most one outcome row exists per decision, and of the requests
\* for one decision that got past the validation at most one is answered
\* 201.
C29_OneOutcomePerDecision ==
    \A id \in 1..2 :
        /\ Cardinality(outcomesOf(id)) <= 1
        /\ Cardinality({r \in 1..Len(requests) :
               /\ requests[r].status = 201
               /\ requests[r].body.decision_id = id}) <= 1

(***************************************************************************)
(* Properties of the weekly run.                                           *)
(***************************************************************************)
\* C30: a run whose select of the active users succeeded ends with
\* success, every distinct active user handled exactly once whatever the
\* database answered for the users before it, usersProcessed equal to the
\* number of distinct active users, and insightsGenerated equal to the
\* number of insights whose insert succeeded.
C30_UsersIndependent ==
    /\ run.status = "running" =>
           /\ run.index <= Len(run.uniqueUserIds) + 1
           /\ Len(run.log) = run.index - 1
    /\ run.status = "done" =>
           LET active == {run.activeUsers[i] : i \in 1..Len(run.activeUsers)} IN
           /\ response.success
           /\ response.usersProcessed = Cardinality(active)
           /\ {run.log[i].user_id : i \in 1..Len(run.log)} = active
           /\ Len(run.log) = Cardinality(active)
           /\ response.insightsGenerated = Len(run.stored)
           /\ \A u \in active :
                  Cardinality({i \in 1..Len(run.stored) : run.stored[i].user_id = u})
                  = LET a == run.log[CHOOSE i \in 1..Len(run.log) : run.log[i].user_id = u].answer
                    IN  IF a.kind = "decisions" /\ ~a.insertError /\ Len(a.decisions) > 0
                        THEN Len(weeklyInsights(u, a.decisions)) ELSE 0

\* a finished run of three users: a failed select, a failed insert of
\* some insights, then a user whose insights are stored
C30_Witness ==
    /\ run.status = "done"
    /\ Len(run.log) = 3
    /\ run.log[1].answer.kind = "decisionsError"
    /\ run.log[2].answer.kind = "decisions"
    /\ run.log[2].answer.insertError
    /\ Len(run.log[2].answer.decisions) > 0
    /\ run.log[3].answer.kind = "decisions"
    /\ response.insightsGenerated > 1

(***************************************************************************)
(* Properties of the final spread.                                         *)
(***************************************************************************)
\* C24: for a context with at least 2 options the final spread
\* max(score) - min(score) is at least 15 and at most 75, the confidence
\* lies in [0.56, 0.80], and the reasoning never closes with the clause
\* for options that are close.
C24_SpreadBounds ==
    (result.status = "ok" /\ Len(context.options) >= 2) =>
        LET n == Len(result.rankings)
            spread == CHOOSE d \in 0..100 :
                /\ \E i, j \in 1..n : result.rankings[i].score - result.rankings[j].score = d
                /\ \A i, j \in 1..n : result.rankings[i].score - result.rankings[j].score <= d
        IN  /\ spread >= 15
            /\ spread <= 75
            /\ FracGE(result.confidence_score, Frac(56, 100))
            /\ FracGE(Frac(80, 100), result.confidence_score)
            /\ result.comparison # "close"

\* the spread of 15 that the normalizer gives two options, at the lower
\* end of the confidence
C24_Witness ==
    /\ result.status = "ok"
    /\ Len(context.options) = 2
    /\ needsSpread(scoredOptions(context))
    /\ result.rankings[1].score - result.rankings[2].score = 15
    /\ result.confidence_score = Frac(56, 100)
    /\ result.comparison = "others_have_merit"

(***************************************************************************)
(* Properties of the analysis under one more pro.  The analysed context is *)
(* compared with the context that has one pro fewer on one option.         *)
(***************************************************************************)
\* the context before the last pro of option k was added
withoutLastPro(ctx, k) ==
    [ctx EXCEPT !.options[k].pros = SubSeq(@, 1, Len(@) - 1)]
\* the entry of the k-th option in the rankings of an analysis
entryOf(analysis, k) ==
    analysis.rankings[CHOOSE i \in 1..Len(analysis.rankings) :
                          analysis.rankings[i].pos = k - 1]
optionsWithPro == {k \in 1..Len(context.options) : prosCount(context.options[k]) >= 1}

\* C25: adding one pro to one option and leaving the rest unchanged never
\* gives that option a numerically larger rank.
C25_RankMonotoneInPros ==
    result.status = "ok" =>
        \A k \in optionsWithPro :
            entryOf(result, k).rank
                <= entryOf(analyzeDecision(withoutLastPro(context, k)), k).rank

\* a pro that moved its option up past another one
C25_Witness ==
    /\ result.status = "ok"
    /\ \E k \in optionsWithPro :
           entryOf(result, k).rank
               < entryOf(analyzeDecision(withoutLastPro(context, k)), k).rank

\* C26: in a context with at least 2 options, adding one pro to one option
\* and leaving the rest unchanged never lowers the final score of that
\* option.
C26_ScoreMonotoneInPros ==
    (result.status = "ok" /\ Len(context.options) >= 2) =>
        \A k \in optionsWithPro :
            entryOf(result, k).score
                >= entryOf(analyzeDecision(withoutLastPro(context, k)), k).score

====
